---- MODULE Spec2Model ----
(***************************************************************************)
(* JalopyAlerts worker (src/worker/worker.js): the saved-search alert      *)
(* engine.  The KV store holds one array of saved-search records that is   *)
(* read and written wholesale; request handlers (POST/DELETE /alerts) and  *)
(* the daily sweep (rerunSavedSearches) interleave at their awaits.        *)
(*                                                                         *)
(* Text is a sequence of one-character strings, so that trimming, joining  *)
(* and letter case are computed, not assumed.  A year is an integer; the   *)
(* JavaScript null/undefined of a year or timestamp is Null.               *)
(***************************************************************************)
EXTENDS Integers, Sequences, FiniteSets, TLC

VARIABLES
    store,      \* KV value under SAVED_SEARCHES_KV_KEY: sequence of records
    upstream,   \* set of inventory rows currently listed by the yards
    nextId,     \* source of crypto.randomUUID()
    req,        \* per request handler: position and locals of handleAlerts
    sweep,      \* position and locals of rerunSavedSearches
    log,        \* history: sweeps started, each record's last check, last sweep step
    out,        \* what the step just taken emitted: a response, a delivery attempt
    call        \* a pure-function application: inputs and result

vars == <<store, upstream, nextId, req, sweep, log, out, call>>

-----------------------------------------------------------------------------
(* Values *)

Null == -1

T(s) == s   \* a text literal is written as a tuple of characters

Colon == <<":">>
Space == " "

MAX_ALERTS_TOTAL == 500
MAX_ALERTS_PER_OWNER == 25

YARDS ==
    << [id |-> <<"1","0","2","0">>, name |-> <<"B","O","I","S","E">>],
       [id |-> <<"1","0","2","1">>, name |-> <<"C","A","L","D","W","E","L","L">>],
       [id |-> <<"1","1","1","9">>, name |-> <<"G","A","R","D","E","N"," ","C","I","T","Y">>],
       [id |-> <<"1","0","2","2">>, name |-> <<"N","A","M","P","A">>],
       [id |-> <<"1","0","9","9">>, name |-> <<"T","W","I","N"," ","F","A","L","L","S">>],
       [id |-> <<"t","r","u","s","t","y">>, name |-> <<"T","R","U","S","T","Y","'","S">>] >>

YardIdx == 1..Len(YARDS)

-----------------------------------------------------------------------------
(* Text helpers *)

Digit == <<"0","1","2","3","4","5","6","7","8","9">>

RECURSIVE NumStr(_)
\* String(n) of a non-negative integer
NumStr(n) ==
    IF n < 10 THEN <<Digit[n + 1]>>
    ELSE NumStr(n \div 10) \o <<Digit[(n % 10) + 1]>>

RECURSIVE TrimLeft(_)
TrimLeft(s) ==
    IF s # <<>> /\ Head(s) = Space THEN TrimLeft(Tail(s)) ELSE s

RECURSIVE TrimRight(_)
TrimRight(s) ==
    IF s # <<>> /\ s[Len(s)] = Space THEN TrimRight(SubSeq(s, 1, Len(s) - 1)) ELSE s

\* String.prototype.trim
Trim(s) == TrimRight(TrimLeft(s))

\* a || b on text: the empty text (like null and undefined) is falsy
OrText(a, b) == IF a # <<>> THEN a ELSE b

\* a ?? b on a year
Coalesce(a, b) == IF a # Null THEN a ELSE b

normalizeText(v) == Trim(v)

-----------------------------------------------------------------------------
(* Inventory rows and the diff *)

\* String(v || "") of a row's year: 0 is falsy
YearKeyText(y) == IF y = 0 THEN <<>> ELSE NumStr(y)

inventoryKey(row) ==
    row.yardId \o Colon \o YearKeyText(row.year) \o Colon \o row.make
        \o Colon \o row.model \o Colon \o row.row

KeysOf(rows) == { inventoryKey(rows[i]) : i \in 1..Len(rows) }

diffNewVehiclesNoPrev(current, previous) == current

diffNewVehiclesSwapped(current, previous) ==
    LET curKeys == KeysOf(current)
        Keep(row) == inventoryKey(row) \notin curKeys
    IN SelectSeq(previous, Keep)

diffNewVehicles(current, previous) ==
    LET prevKeys == KeysOf(previous)
        Keep(row) == inventoryKey(row) \notin prevKeys
    IN SelectSeq(current, Keep)

-----------------------------------------------------------------------------
(* Year ranges *)

MIN_YEAR == 1900
MAX_YEAR == 2100

\* value: Null or the number the year text denotes
parseOptionalYearNoRange(value, strict) ==
    [ok |-> TRUE, year |-> value]

parseOptionalYear(value, strict) ==
    IF value = Null THEN [ok |-> TRUE, year |-> Null]
    ELSE IF value >= MIN_YEAR /\ value <= MAX_YEAR THEN [ok |-> TRUE, year |-> value]
    ELSE IF strict THEN [ok |-> FALSE, year |-> Null]
    ELSE [ok |-> TRUE, year |-> Null]

Min2(a, b) == IF a <= b THEN a ELSE b
Max2(a, b) == IF a >= b THEN a ELSE b

\* minRaw = VehicleMinYear ?? minYear, maxRaw = VehicleMaxYear ?? maxYear,
\* singleRaw = VehicleYear ?? year of the source object
deriveYearRange(minRaw, maxRaw, singleRaw, strict) ==
    LET pmin == parseOptionalYear(minRaw, strict)
        pmax == parseOptionalYear(maxRaw, strict)
        psingle == parseOptionalYear(singleRaw, strict)
        normalizedMin == Coalesce(pmin.year, psingle.year)
        normalizedMax == Coalesce(pmax.year, psingle.year)
        reversed == normalizedMin # Null /\ normalizedMax # Null /\ normalizedMin > normalizedMax
    IN  IF ~(pmin.ok /\ pmax.ok /\ psingle.ok)
        THEN [ok |-> FALSE, error |-> "Vehicle year must be between 1900 and 2100.",
              minYear |-> Null, maxYear |-> Null]
        ELSE IF reversed /\ strict
        THEN [ok |-> FALSE, error |-> "VehicleMinYear must be before VehicleMaxYear",
              minYear |-> Null, maxYear |-> Null]
        ELSE IF reversed
        THEN [ok |-> TRUE, error |-> "",
              minYear |-> Min2(normalizedMin, normalizedMax),
              maxYear |-> Max2(normalizedMin, normalizedMax)]
        ELSE [ok |-> TRUE, error |-> "", minYear |-> normalizedMin, maxYear |-> normalizedMax]

\* deriveYearRange(s) of a stored record or of a validated payload: both carry
\* VehicleMinYear, VehicleMaxYear and VehicleYear and no minYear/maxYear/year
RangeOf(s) == deriveYearRange(s.VehicleMinYear, s.VehicleMaxYear, s.VehicleYear, FALSE)

yearRangesEqual(a, b) == a.minYear = b.minYear /\ a.maxYear = b.maxYear

-----------------------------------------------------------------------------
(* Payload validation *)

NoSub == [present |-> FALSE, endpoint |-> <<>>, keysAuth |-> <<>>, auth |-> <<>>,
          keysP256dh |-> <<>>, p256dh |-> <<>>]

\* result: the subscription, or NoSub for null
normalizeSubscription(sub) ==
    LET endpoint == normalizeText(sub.endpoint)
        auth == normalizeText(OrText(sub.keysAuth, sub.auth))
        p256dh == normalizeText(OrText(sub.keysP256dh, sub.p256dh))
    IN  IF ~sub.present THEN NoSub
        ELSE IF endpoint = <<>> \/ auth = <<>> \/ p256dh = <<>> THEN NoSub
        ELSE [present |-> TRUE, endpoint |-> endpoint, keysAuth |-> <<>>, auth |-> auth,
              keysP256dh |-> <<>>, p256dh |-> p256dh]

MAX_MAKE_LEN == 48
MAX_MODEL_LEN == 64

Invalid(msg) == [ok |-> FALSE, error |-> msg]

\* a mutation of the check that looks at the endpoint alone
pushTripleMissingEndpointOnly(pushEndpoint, pushAuth, pushP256dh) ==
    pushEndpoint = <<>>

\* line 641: !pushEndpoint || !pushAuth || !pushP256dh
pushTripleMissing(pushEndpoint, pushAuth, pushP256dh) ==
    pushEndpoint = <<>> \/ pushAuth = <<>> \/ pushP256dh = <<>>

validateAlertPayload(payload) ==
    LET VehicleMake == normalizeText(OrText(payload.VehicleMake, payload.make))
        VehicleModel == normalizeText(OrText(payload.VehicleModel, payload.model))
        range == deriveYearRange(Coalesce(payload.VehicleMinYear, payload.minYear),
                                 Coalesce(payload.VehicleMaxYear, payload.maxYear),
                                 Coalesce(payload.VehicleYear, payload.year), TRUE)
        subscription == normalizeSubscription(
                            IF payload.subscription.present THEN payload.subscription
                            ELSE payload.pushSubscription)
        pushEndpoint == OrText(subscription.endpoint, normalizeText(payload.pushEndpoint))
        pushAuth == OrText(subscription.auth, normalizeText(payload.pushAuth))
        pushP256dh == OrText(subscription.p256dh, normalizeText(payload.pushP256dh))
    IN  IF ~range.ok THEN Invalid(range.error)
        ELSE IF VehicleMake = <<>> THEN Invalid("VehicleMake is required")
        ELSE IF Len(VehicleMake) > MAX_MAKE_LEN THEN Invalid("VehicleMake too long")
        ELSE IF Len(VehicleModel) > MAX_MODEL_LEN THEN Invalid("VehicleModel too long")
        ELSE IF pushTripleMissing(pushEndpoint, pushAuth, pushP256dh)
        THEN Invalid("Push subscription (endpoint, auth, p256dh) is required")
        ELSE [ok |-> TRUE, error |-> "",
              VehicleMake |-> VehicleMake,
              VehicleModel |-> VehicleModel,
              VehicleMinYear |-> range.minYear,
              VehicleMaxYear |-> range.maxYear,
              VehicleYear |-> IF range.minYear # Null /\ range.minYear = range.maxYear
                              THEN range.minYear ELSE Null,
              pushEndpoint |-> pushEndpoint,
              pushAuth |-> pushAuth,
              pushP256dh |-> pushP256dh]

-----------------------------------------------------------------------------
(* Owner key *)

ALERT_SALT == <<"s">>

\* SHA-256 taken as collision-free: the digest is an injective tag of its input
hashString(input) == <<"#">> \o input

\* client: the request's cf-connecting-ip and user-agent headers
hashOwner(client) ==
    hashString(ALERT_SALT \o Colon \o Trim(client.ip) \o Colon \o Trim(client.ua))

-----------------------------------------------------------------------------
(* Aggregation for a saved search *)

\* The upstream site lists, for one yard, the rows of the requested make and,
\* when a model is given, of that model, in listing order.
UpstreamMatches(row, VehicleMake, VehicleModel) ==
    /\ row.make = VehicleMake
    /\ (VehicleModel = <<>> \/ row.model = VehicleModel)

\* up: the rows the yards list now, in listing order
fetchAndParseInventory(up, yard, VehicleMake, VehicleModel) ==
    LET Listed(row) == /\ row.yardId = yard.id
                       /\ UpstreamMatches(row, VehicleMake, VehicleModel)
    IN SelectSeq(up, Listed)

RECURSIVE Flat(_)
Flat(seqs) == IF seqs = <<>> THEN <<>> ELSE Head(seqs) \o Flat(Tail(seqs))

\* runPool over the yard tasks: results[idx] is the task's rows, or [] when the
\* task threw (failed: the indexes of the yards whose fetch or parse failed)
PoolResults(up, failed, VehicleMake, VehicleModel) ==
    [idx \in YardIdx |->
        IF idx \in failed THEN <<>>
        ELSE fetchAndParseInventory(up, YARDS[idx], VehicleMake, VehicleModel)]

\* a mutation of the filter with exclusive bounds
YearInRangeExclusive(range, year) ==
    /\ ~(range.minYear # Null /\ year <= range.minYear)
    /\ ~(range.maxYear # Null /\ year >= range.maxYear)

\* lines 417-421: the rows the filter callback returns true for
YearInRange(range, year) ==
    /\ ~(range.minYear # Null /\ year < range.minYear)
    /\ ~(range.maxYear # Null /\ year > range.maxYear)

runSavedSearch(search, up, failed) ==
    LET VehicleMake == Trim(search.VehicleMake)
        VehicleModel == Trim(search.VehicleModel)
        range == RangeOf(search)
        Keep(r) == YearInRange(range, r.year)
    IN  IF VehicleMake = <<>> THEN <<>>
        ELSE SelectSeq(Flat(PoolResults(up, failed, VehicleMake, VehicleModel)), Keep)

-----------------------------------------------------------------------------
(* Saved-search records *)

NoStatus == "<null>"
NoPayload == [alertId |-> Null, count |-> 0, yards |-> <<>>]

NewRecord(id, ownerKey, createdAt, validated) ==
    [id |-> id,
     ownerKey |-> ownerKey,
     createdAt |-> createdAt,
     VehicleMake |-> validated.VehicleMake,
     VehicleModel |-> validated.VehicleModel,
     VehicleYear |-> validated.VehicleYear,
     VehicleMinYear |-> validated.VehicleMinYear,
     VehicleMaxYear |-> validated.VehicleMaxYear,
     pushEndpoint |-> validated.pushEndpoint,
     pushAuth |-> validated.pushAuth,
     pushP256dh |-> validated.pushP256dh,
     lastSnapshot |-> <<>>,
     lastNotifiedAt |-> Null,
     lastNotificationStatus |-> NoStatus,
     lastNotificationPayload |-> NoPayload]

MineOf(searches, ownerKey) ==
    LET Mine(s) == s.ownerKey = ownerKey IN SelectSeq(searches, Mine)

IsDuplicateIgnoresEndpoint(s, validated) ==
    /\ normalizeText(s.VehicleMake) = validated.VehicleMake
    /\ normalizeText(s.VehicleModel) = normalizeText(validated.VehicleModel)
    /\ yearRangesEqual(RangeOf(s), RangeOf(validated))

IsDuplicateAnyRange(s, validated) ==
    /\ normalizeText(s.VehicleMake) = validated.VehicleMake
    /\ normalizeText(s.VehicleModel) = normalizeText(validated.VehicleModel)
    /\ RangeOf(s).minYear = RangeOf(validated).maxYear
    /\ RangeOf(s).maxYear = RangeOf(validated).maxYear
    /\ normalizeText(s.pushEndpoint) = normalizeText(validated.pushEndpoint)

\* the predicate of mine.find(...) in the POST handler
IsDuplicate(s, validated) ==
    /\ normalizeText(s.VehicleMake) = validated.VehicleMake
    /\ normalizeText(s.VehicleModel) = normalizeText(validated.VehicleModel)
    /\ yearRangesEqual(RangeOf(s), RangeOf(validated))
    /\ normalizeText(s.pushEndpoint) = normalizeText(validated.pushEndpoint)

TotalQuotaReachedOffByOne(searches) == Len(searches) > MAX_ALERTS_TOTAL

TotalQuotaReached(searches) == Len(searches) >= MAX_ALERTS_TOTAL

OwnerQuotaReachedOffByOne(mine) == Len(mine) > MAX_ALERTS_PER_OWNER

OwnerQuotaReached(mine) == Len(mine) >= MAX_ALERTS_PER_OWNER

-----------------------------------------------------------------------------
(* Notification delivery *)

RECURSIVE DistinctInOrder(_)
\* Array.from(new Set(seq))
DistinctInOrder(seq) ==
    IF seq = <<>> THEN <<>>
    ELSE LET init == DistinctInOrder(SubSeq(seq, 1, Len(seq) - 1))
             last == seq[Len(seq)]
         IN IF \E i \in 1..Len(init) : init[i] = last THEN init ELSE Append(init, last)

\* the data of the payload; title and body are texts built from the same inputs
buildNotificationPayload(search, newVehicles) ==
    [alertId |-> search.id,
     count |-> Len(newVehicles),
     yards |-> DistinctInOrder([i \in 1..Len(newVehicles) |-> newVehicles[i].yardName])]

\* a mutation without the try/catch around sendWebPush
deliverNotificationsNoCatch(search, newVehicles, pushOk) ==
    [threw |-> search.pushEndpoint # <<>> /\ ~pushOk,
     status |-> IF search.pushEndpoint = <<>> THEN "no push subscription"
                ELSE IF pushOk THEN "push sent"
                ELSE "push failed",
     payload |-> buildNotificationPayload(search, newVehicles)]

\* pushOk: whether sendWebPush to the endpoint succeeded; a send that throws is
\* caught (lines 694-702) and becomes the status
deliverNotifications(search, newVehicles, pushOk) ==
    [threw |-> FALSE,
     status |-> IF search.pushEndpoint = <<>> THEN "no push subscription"
                ELSE IF pushOk THEN "push sent"
                ELSE "push failed",
     payload |-> buildNotificationPayload(search, newVehicles)]

-----------------------------------------------------------------------------
(* History *)

\* bounds of the exploration: records created, sweeps started
MaxIds == 1
MaxSweeps == 1

NoStep == [id |-> Null, unchanged |-> FALSE, complete |-> FALSE, fresh |-> FALSE,
           new |-> 0, before |-> Null]
NoRequest == [op |-> "none", status |-> 0]
NoCall == [fn |-> "none"]
Idle == [pc |-> "idle"]

EmptyFn == [x \in {} |-> Null]

NoDelivery == [id |-> Null, count |-> 0, status |-> NoStatus, payload |-> NoPayload, at |-> Null]

\* maxIds, maxSweeps: how many records may be created and sweeps started
InitLogFor(maxIds, maxSweeps) ==
    [sweepNo |-> 0,
     caps |-> [ids |-> maxIds, sweeps |-> maxSweeps],
     check |-> EmptyFn,
     step |-> NoStep,
     clean |-> FALSE,
     swept |-> FALSE]

InitLog ==
    [sweepNo |-> 0,
     caps |-> [ids |-> MaxIds, sweeps |-> MaxSweeps],
     check |-> EmptyFn,
     step |-> NoStep,
     clean |-> FALSE,
     swept |-> FALSE]

NoInput == [kind |-> "none"]
NoBody == [kind |-> "none"]

\* last: the response of the step, request: what the client sent, body: the
\* JSON the client receives
Quiet == [last |-> NoRequest, delivery |-> NoDelivery, request |-> NoInput, body |-> NoBody]

\* new Date(): a logical clock that advances with every create and every sweep
now == nextId + log.sweepNo

\* the rows the yards list that answer a search's query and year range
MatchingUpstream(search, up) ==
    { up[i] : i \in { j \in 1..Len(up) :
                        /\ UpstreamMatches(up[j], Trim(search.VehicleMake), Trim(search.VehicleModel))
                        /\ YearInRange(RangeOf(search), up[j].year) } }

UpperOf(c) ==
    CASE c = "t" -> "T"
      [] c = "p" -> "P"
      [] c = "h" -> "H"
      [] OTHER -> c

\* case-normalized text
Fold(text) == [i \in 1..Len(text) |-> UpperOf(text[i])]

SameKey(s, v) ==
    /\ s.VehicleMake = v.VehicleMake
    /\ s.VehicleModel = v.VehicleModel
    /\ s.VehicleMinYear = v.VehicleMinYear
    /\ s.VehicleMaxYear = v.VehicleMaxYear
    /\ s.pushEndpoint = v.pushEndpoint

SameKeyFold(s, v) ==
    /\ Fold(s.VehicleMake) = Fold(v.VehicleMake)
    /\ Fold(s.VehicleModel) = Fold(v.VehicleModel)
    /\ s.VehicleMinYear = v.VehicleMinYear
    /\ s.VehicleMaxYear = v.VehicleMaxYear
    /\ s.pushEndpoint = v.pushEndpoint

\* what a create request saw when it read the store
ReadFacts(searches, ownerKey, validated) ==
    LET mine == MineOf(searches, ownerKey)
    IN [total |-> Len(searches),
        mine |-> Len(mine),
        sameKey |-> validated.ok /\ \E i \in 1..Len(mine) : SameKey(mine[i], validated),
        sameKeyFold |-> validated.ok /\ \E i \in 1..Len(mine) : SameKeyFold(mine[i], validated)]

Respond(op, status, ownerKey, valid, facts, wrote) ==
    [op |-> op, status |-> status, ownerKey |-> ownerKey, valid |-> valid,
     facts |-> facts, wrote |-> wrote]

NoFacts == [total |-> 0, mine |-> 0, sameKey |-> FALSE, sameKeyFold |-> FALSE]

-----------------------------------------------------------------------------
(* Response bodies *)

\* a mutation of the projection that passes the endpoint through
redactSearchForClientLeaky(search) ==
    [id |-> search.id,
     VehicleMake |-> search.VehicleMake,
     VehicleModel |-> search.VehicleModel,
     VehicleYear |-> search.VehicleYear,
     VehicleMinYear |-> search.VehicleMinYear,
     VehicleMaxYear |-> search.VehicleMaxYear,
     hasPush |-> search.pushEndpoint # <<>>,
     pushEndpoint |-> search.pushEndpoint,
     createdAt |-> search.createdAt,
     lastNotifiedAt |-> search.lastNotifiedAt,
     lastNotificationStatus |-> search.lastNotificationStatus]

\* lines 612-626; `?? null` and `|| null` keep Null and NoStatus as they are
redactSearchForClient(search) ==
    [id |-> search.id,
     VehicleMake |-> search.VehicleMake,
     VehicleModel |-> search.VehicleModel,
     VehicleYear |-> search.VehicleYear,
     VehicleMinYear |-> search.VehicleMinYear,
     VehicleMaxYear |-> search.VehicleMaxYear,
     hasPush |-> search.pushEndpoint # <<>>,
     createdAt |-> search.createdAt,
     lastNotifiedAt |-> search.lastNotifiedAt,
     lastNotificationStatus |-> search.lastNotificationStatus]

\* searches.map(redactSearchForClient)
redactAll(q) == [i \in 1..Len(q) |-> redactSearchForClient(q[i])]

ErrorBody(msg) == [kind |-> "error", error |-> msg]
OkBody == [kind |-> "ok"]
CreatedBody(base) == [kind |-> "created", alert |-> redactSearchForClient(base)]

\* a mutation of the listing that skips the owner filter
listAlertsOfAll(searches, ownerKey) ==
    [kind |-> "list", count |-> Len(searches), alerts |-> redactAll(searches)]

\* lines 494-496: mine, then { count, alerts }
listAlerts(searches, ownerKey) ==
    LET mine == MineOf(searches, ownerKey)
    IN  [kind |-> "list", count |-> Len(mine), alerts |-> redactAll(mine)]

\* a mutation of the filter that removes the id whoever owns it
remainingAfterDeleteAnyOwner(searches, id, ownerKey) ==
    LET Stays(s) == ~(s.id = id)
    IN  SelectSeq(searches, Stays)

\* line 577: searches.filter((s) => !(s.id === id && s.ownerKey === ownerKey))
remainingAfterDelete(searches, id, ownerKey) ==
    LET Stays(s) == ~(s.id = id /\ s.ownerKey = ownerKey)
    IN  SelectSeq(searches, Stays)

\* what the store read by a delete holds under the id
DeleteFacts(searches, id, ownerKey) ==
    [known |-> \E i \in 1..Len(searches) : searches[i].id = id,
     owned |-> \E i \in 1..Len(searches) :
                    searches[i].id = id /\ searches[i].ownerKey = ownerKey]

-----------------------------------------------------------------------------
(* GET /alerts *)

\* lines 488-497: one read of the collection, then the response
ListAlerts(client) ==
    /\ out' = [Quiet EXCEPT !.last = Respond("list", 200, hashOwner(client), TRUE, NoFacts, FALSE),
                           !.request = [kind |-> "list"],
                           !.body = listAlerts(store, hashOwner(client))]
    /\ UNCHANGED <<store, upstream, nextId, req, sweep, log, call>>

-----------------------------------------------------------------------------
(* POST /alerts *)

\* lines 500-551: validation, kv.get, quota and duplicate checks, the new record
CreateStart(h, client, payload) ==
    /\ req[h].pc = "idle"
    /\ LET ownerKey == hashOwner(client)
           validated == validateAlertPayload(payload)
           searches == store
           mine == MineOf(searches, ownerKey)
           facts == ReadFacts(searches, ownerKey, validated)
           Reject(status, msg) ==
               /\ out' = [Quiet EXCEPT !.last = Respond("create", status, ownerKey,
                                                        validated.ok, facts, FALSE),
                                      !.request = [kind |-> "create", payload |-> payload],
                                      !.body = ErrorBody(msg)]
               /\ UNCHANGED <<store, upstream, nextId, req, sweep, log, call>>
       IN  IF ~validated.ok THEN Reject(400, validated.error)
           ELSE IF TotalQuotaReached(searches)
           THEN Reject(429, "Alert capacity reached. Try again later.")
           ELSE IF OwnerQuotaReached(mine)
           THEN Reject(429, "Too many saved alerts. Delete one before adding another.")
           ELSE IF \E i \in 1..Len(mine) : IsDuplicate(mine[i], validated)
           THEN Reject(409, "You already saved this search.")
           ELSE /\ nextId <= log.caps.ids
                /\ req' = [req EXCEPT ![h] =
                              [pc |-> "prefetch", ownerKey |-> ownerKey, searches |-> searches,
                               base |-> NewRecord(nextId, ownerKey, now, validated),
                               facts |-> facts, payload |-> payload]]
                /\ nextId' = nextId + 1
                /\ out' = Quiet
                /\ UNCHANGED <<store, upstream, sweep, log, call>>

\* runPool absorbs every yard failure and nothing else in runSavedSearch
\* throws, so the catch of lines 555-558 is never entered
RunSavedSearchThrows == FALSE

\* lines 553-560: the prefetch, then searches.push(base)
CreatePrefetch(h, failed) ==
    /\ req[h].pc = "prefetch"
    /\ LET base == req[h].base
           fetched == IF RunSavedSearchThrows
                      THEN [base EXCEPT !.lastSnapshot = <<>>,
                                        !.lastNotificationStatus = "prefetch failed"]
                      ELSE [base EXCEPT !.lastSnapshot = runSavedSearch(base, upstream, failed)]
       IN /\ req' = [req EXCEPT ![h].pc = "put", ![h].base = fetched,
                                  ![h].searches = Append(@, fetched)]
          /\ log' = [log EXCEPT !.check = (base.id :> [up |-> MatchingUpstream(base, upstream),
                                                       complete |-> failed = {},
                                                       snap |-> fetched.lastSnapshot]) @@ @]
    /\ out' = Quiet
    /\ UNCHANGED <<store, upstream, nextId, sweep, call>>

\* a mutation of the write that appends the record to what the store holds now
CreatePutAppending(h) ==
    /\ req[h].pc = "put"
    /\ store' = Append(store, req[h].base)
    /\ req' = [req EXCEPT ![h] = Idle]
    /\ out' = [Quiet EXCEPT !.last = Respond("create", 201, req[h].ownerKey, TRUE,
                                            req[h].facts, TRUE),
                           !.request = [kind |-> "create", payload |-> req[h].payload],
                           !.body = CreatedBody(req[h].base)]
    /\ log' = [log EXCEPT !.clean = FALSE, !.swept = FALSE]
    /\ UNCHANGED <<upstream, nextId, sweep, call>>

\* lines 561-563: kv.put of the whole collection, then the 201 response
CreatePut(h) ==
    /\ req[h].pc = "put"
    /\ store' = req[h].searches
    /\ req' = [req EXCEPT ![h] = Idle]
    /\ out' = [Quiet EXCEPT !.last = Respond("create", 201, req[h].ownerKey, TRUE,
                                            req[h].facts, TRUE),
                           !.request = [kind |-> "create", payload |-> req[h].payload],
                           !.body = CreatedBody(req[h].base)]
    /\ log' = [log EXCEPT !.clean = FALSE, !.swept = FALSE]
    /\ UNCHANGED <<upstream, nextId, sweep, call>>

-----------------------------------------------------------------------------
(* DELETE /alerts/{id} *)

\* a mutation that writes the filtered collection back before answering 404
DeleteStartWritingFirst(h, client, id) ==
    /\ req[h].pc = "idle"
    /\ LET ownerKey == hashOwner(client)
           searches == store
           remaining == remainingAfterDelete(searches, id, ownerKey)
           Reject(status, msg, wrote) ==
               /\ out' = [Quiet EXCEPT !.last = Respond("delete", status, ownerKey,
                                                        id # Null, NoFacts, wrote),
                                      !.request = [kind |-> "delete", id |-> id,
                                                   found |-> DeleteFacts(searches, id, ownerKey)],
                                      !.body = ErrorBody(msg)]
               /\ store' = IF wrote THEN remaining ELSE store
               /\ UNCHANGED <<upstream, nextId, req, sweep, log, call>>
       IN  IF id = Null THEN Reject(400, "id is required", FALSE)
           ELSE IF Len(remaining) = Len(searches) THEN Reject(404, "Not found", TRUE)
           ELSE /\ req' = [req EXCEPT ![h] =
                              [pc |-> "delput", ownerKey |-> ownerKey, searches |-> remaining,
                               id |-> id, found |-> DeleteFacts(searches, id, ownerKey)]]
                /\ out' = Quiet
                /\ UNCHANGED <<store, upstream, nextId, sweep, log, call>>

\* lines 566-578: id is Null when the request names none
DeleteStart(h, client, id) ==
    /\ req[h].pc = "idle"
    /\ LET ownerKey == hashOwner(client)
           searches == store
           remaining == remainingAfterDelete(searches, id, ownerKey)
           Reject(status, msg) ==
               /\ out' = [Quiet EXCEPT !.last = Respond("delete", status, ownerKey,
                                                        id # Null, NoFacts, FALSE),
                                      !.request = [kind |-> "delete", id |-> id,
                                                   found |-> DeleteFacts(searches, id, ownerKey)],
                                      !.body = ErrorBody(msg)]
               /\ UNCHANGED <<store, upstream, nextId, req, sweep, log, call>>
       IN  IF id = Null THEN Reject(400, "id is required")
           ELSE IF Len(remaining) = Len(searches) THEN Reject(404, "Not found")
           ELSE /\ req' = [req EXCEPT ![h] =
                              [pc |-> "delput", ownerKey |-> ownerKey, searches |-> remaining,
                               id |-> id, found |-> DeleteFacts(searches, id, ownerKey)]]
                /\ out' = Quiet
                /\ UNCHANGED <<store, upstream, nextId, sweep, log, call>>

\* lines 580-581
DeletePut(h) ==
    /\ req[h].pc = "delput"
    /\ store' = req[h].searches
    /\ req' = [req EXCEPT ![h] = Idle]
    /\ out' = [Quiet EXCEPT !.last = Respond("delete", 200, req[h].ownerKey, TRUE, NoFacts, TRUE),
                           !.request = [kind |-> "delete", id |-> req[h].id, found |-> req[h].found],
                           !.body = OkBody]
    /\ log' = [log EXCEPT !.clean = FALSE, !.swept = FALSE]
    /\ UNCHANGED <<upstream, nextId, sweep, call>>

-----------------------------------------------------------------------------
(* The daily sweep: rerunSavedSearches *)

SnapshotOnlyWhenNew(search, currentRows, newVehicles) ==
    IF Len(newVehicles) > 0 THEN [search EXCEPT !.lastSnapshot = currentRows] ELSE search

\* a mutation of the sweep that keeps every vehicle it has ever seen in the
\* snapshot
NextRecordRemembering(search, currentRows, newVehicles) ==
    [search EXCEPT !.lastSnapshot = search.lastSnapshot \o newVehicles]

\* a mutation of the sweep that also drops the lower year bound of the search
NextRecordTouchingQuery(search, currentRows, newVehicles) ==
    [search EXCEPT !.lastSnapshot = currentRows, !.VehicleMinYear = Null]

\* lines 378-381: next = {...search, lastSnapshot: currentRows}
NextRecord(search, currentRows, newVehicles) ==
    [search EXCEPT !.lastSnapshot = currentRows]

ShouldDeliverAlways(newVehicles) == TRUE

\* line 383: if (newVehicles.length)
ShouldDeliver(newVehicles) == Len(newVehicles) > 0

\* lines 364-371: kv.get; an empty collection ends the sweep; request is what
\* invoked the sweep
rerunSavedSearches(request) ==
    /\ sweep.pc = "idle"
    /\ log.sweepNo < log.caps.sweeps
    /\ IF store = <<>>
       THEN /\ log' = [log EXCEPT !.sweepNo = @ + 1]
            /\ UNCHANGED sweep
       ELSE /\ sweep' = [pc |-> "loop", searches |-> store, refreshed |-> <<>>, i |-> 1]
            /\ log' = [log EXCEPT !.sweepNo = @ + 1, !.clean = TRUE, !.swept = FALSE]
    /\ out' = [Quiet EXCEPT !.request = request]
    /\ UNCHANGED <<store, upstream, nextId, req, call>>

\* the daily trigger starts the sweep
SweepStart == rerunSavedSearches(NoInput)

\* lines 374-383 and 390 for one search: aggregate, diff, next record
SweepAggregate(failed) ==
    /\ sweep.pc = "loop"
    /\ sweep.i <= Len(sweep.searches)
    /\ LET search == sweep.searches[sweep.i]
           currentRows == runSavedSearch(search, upstream, failed)
           previousRows == search.lastSnapshot
           newVehicles == diffNewVehicles(currentRows, previousRows)
           next == NextRecord(search, currentRows, newVehicles)
           known == search.id \in DOMAIN log.check
           step == [id |-> search.id,
                    unchanged |-> known /\ MatchingUpstream(search, upstream) = log.check[search.id].up,
                    complete |-> known /\ log.check[search.id].complete,
                    fresh |-> known /\ log.check[search.id].snap = previousRows,
                    new |-> Len(newVehicles),
                    before |-> search.lastNotifiedAt]
       IN /\ IF ShouldDeliver(newVehicles)
             THEN sweep' = [pc |-> "deliver", searches |-> sweep.searches,
                            refreshed |-> sweep.refreshed, i |-> sweep.i,
                            next |-> next, newVehicles |-> newVehicles]
             ELSE sweep' = [sweep EXCEPT !.refreshed = Append(@, next), !.i = @ + 1]
          /\ log' = [log EXCEPT
                        !.step = step,
                        !.check = (search.id :> [up |-> MatchingUpstream(search, upstream),
                                                 complete |-> failed = {},
                                                 snap |-> currentRows]) @@ @]
    /\ out' = Quiet
    /\ UNCHANGED <<store, upstream, nextId, req, call>>

\* a mutation that keeps the previous snapshot when the push failed, so that
\* the next sweep reports the same vehicles again
SweepDeliverRetrying(pushOk) ==
    /\ sweep.pc = "deliver"
    /\ LET search == sweep.searches[sweep.i]
           delivery == deliverNotifications(search, sweep.newVehicles, pushOk)
           next == [sweep.next EXCEPT !.lastNotifiedAt = now,
                                      !.lastNotificationStatus = delivery.status,
                                      !.lastNotificationPayload = delivery.payload,
                                      !.lastSnapshot = IF delivery.status = "push failed"
                                                       THEN search.lastSnapshot ELSE @]
       IN /\ sweep' = [pc |-> "loop", searches |-> sweep.searches,
                       refreshed |-> Append(sweep.refreshed, next), i |-> sweep.i + 1]
          /\ out' = [Quiet EXCEPT !.delivery =
                        [id |-> search.id, count |-> Len(sweep.newVehicles),
                         status |-> delivery.status, payload |-> delivery.payload,
                         at |-> now]]
          /\ log' = [log EXCEPT !.step = NoStep]
    /\ UNCHANGED <<store, upstream, nextId, req, call>>

\* lines 384-390: the delivery attempt and its outcome on the record; were the
\* delivery to throw, rerunSavedSearches would reject before its kv.put
SweepDeliver(pushOk) ==
    /\ sweep.pc = "deliver"
    /\ LET search == sweep.searches[sweep.i]
           delivery == deliverNotifications(search, sweep.newVehicles, pushOk)
           next == [sweep.next EXCEPT !.lastNotifiedAt = now,
                                      !.lastNotificationStatus = delivery.status,
                                      !.lastNotificationPayload = delivery.payload]
       IN IF delivery.threw
          THEN /\ sweep' = Idle
               /\ out' = [Quiet EXCEPT !.last = Respond("sweep", 500, <<>>, FALSE, NoFacts, FALSE)]
               /\ log' = [log EXCEPT !.step = NoStep]
          ELSE /\ sweep' = [pc |-> "loop", searches |-> sweep.searches,
                            refreshed |-> Append(sweep.refreshed, next), i |-> sweep.i + 1]
               /\ out' = [Quiet EXCEPT !.delivery =
                             [id |-> search.id, count |-> Len(sweep.newVehicles),
                              status |-> delivery.status, payload |-> delivery.payload,
                              at |-> now]]
               /\ log' = [log EXCEPT !.step = NoStep]
    /\ UNCHANGED <<store, upstream, nextId, req, call>>

\* line 393: one kv.put of all refreshed records
\* a mutation of the write that keeps what the store gained since the read
SweepPutKeepingNewer ==
    /\ sweep.pc = "loop"
    /\ sweep.i > Len(sweep.searches)
    /\ LET Newer(s) == \A i \in 1..Len(sweep.searches) : sweep.searches[i].id # s.id
       IN  store' = sweep.refreshed \o SelectSeq(store, Newer)
    /\ sweep' = Idle
    /\ log' = [log EXCEPT !.swept = TRUE, !.step = NoStep]
    /\ out' = Quiet
    /\ UNCHANGED <<upstream, nextId, req, call>>

\* a mutation that writes the records refreshed so far after each search
SweepPutPerRecord ==
    /\ sweep.pc = "loop"
    /\ sweep.refreshed # <<>>
    /\ store' = sweep.refreshed \o SubSeq(store, Len(sweep.refreshed) + 1, Len(store))
    /\ sweep' = IF sweep.i > Len(sweep.searches) THEN Idle ELSE sweep
    /\ log' = [log EXCEPT !.swept = sweep.i > Len(sweep.searches), !.step = NoStep]
    /\ out' = Quiet
    /\ UNCHANGED <<upstream, nextId, req, call>>

\* line 393: kv.put of refreshed
SweepPut ==
    /\ sweep.pc = "loop"
    /\ sweep.i > Len(sweep.searches)
    /\ store' = sweep.refreshed
    /\ sweep' = Idle
    /\ log' = [log EXCEPT !.swept = TRUE, !.step = NoStep]
    /\ out' = Quiet
    /\ UNCHANGED <<upstream, nextId, req, call>>

-----------------------------------------------------------------------------
(* The yards' inventory *)

SetOf(seq) == { seq[i] : i \in 1..Len(seq) }

\* a vehicle of the universe arrives at, or leaves, its yard
UpstreamChange(universe, row) ==
    /\ LET listed == IF row \in SetOf(upstream) THEN SetOf(upstream) \ {row}
                                                 ELSE SetOf(upstream) \cup {row}
           Listed(r) == r \in listed
       IN upstream' = SelectSeq(universe, Listed)
    /\ out' = Quiet
    /\ UNCHANGED <<store, nextId, req, sweep, log, call>>

-----------------------------------------------------------------------------
(* Inputs and bounds *)

Handlers == {"h1", "h2"}

Row(yard, year, make, model, row) ==
    [yardId |-> YARDS[yard].id, yardName |-> YARDS[yard].name, year |-> year,
     make |-> make, model |-> model, row |-> row]

RowA == Row(1, 2010, <<"T">>, <<"P">>, <<"1","4">>)
RowB == Row(2, 2005, <<"T">>, <<"P">>, <<"7">>)

Rows == <<RowA, RowB>>

Payload(make, model, minYear, maxYear, year, endpoint, auth, p256dh) ==
    [VehicleMake |-> <<>>, make |-> make, VehicleModel |-> <<>>, model |-> model,
     VehicleMinYear |-> Null, minYear |-> minYear,
     VehicleMaxYear |-> Null, maxYear |-> maxYear,
     VehicleYear |-> Null, year |-> year,
     subscription |-> NoSub, pushSubscription |-> NoSub,
     pushEndpoint |-> endpoint, pushAuth |-> auth, pushP256dh |-> p256dh]

ClientA == [ip |-> <<"1">>, ua |-> <<"a">>]
ClientB == [ip |-> <<"2">>, ua |-> <<"a">>]
Clients == {ClientA, ClientB}

PayloadAll == Payload(<<"T">>, <<>>, Null, Null, Null, <<"e">>, <<"k">>, <<"d">>)
PayloadFrom2010 == Payload(<<"T">>, <<"P">>, 2010, Null, Null, <<"e">>, <<"k">>, <<"d">>)


-----------------------------------------------------------------------------
(* The alert engine under interleaved requests, sweeps and inventory changes *)

Init ==
    /\ store = <<>>
    /\ upstream = <<RowA>>
    /\ nextId = 1
    /\ req = [h \in Handlers |-> Idle]
    /\ sweep = Idle
    /\ log = InitLog
    /\ out = Quiet
    /\ call = NoCall

\* POST and DELETE requests served by the given handlers
RequestSteps(handlers, clients, payloads, ids, fails) ==
    \/ \E h \in handlers, c \in clients, p \in payloads : CreateStart(h, c, p)
    \/ \E h \in handlers, failed \in fails : CreatePrefetch(h, failed)
    \/ \E h \in handlers : CreatePut(h)
    \/ \E h \in handlers, c \in clients, id \in ids : DeleteStart(h, c, id)
    \/ \E h \in handlers : DeletePut(h)

\* the read, the per-search aggregation and the write of the sweep
SweepSteps(fails) ==
    \/ SweepStart
    \/ \E failed \in fails : SweepAggregate(failed)
    \/ SweepPut

DeliverySteps == \E pushOk \in BOOLEAN : SweepDeliver(pushOk)

InventorySteps(rows) == \E i \in 1..Len(rows) : UpstreamChange(rows, rows[i])

Next ==
    \/ RequestSteps({"h1"}, Clients, {PayloadFrom2010}, {1}, {{}, {1}})
    \/ SweepSteps({{}, {1}})
    \/ DeliverySteps
    \/ InventorySteps(<<RowA>>)

Spec == Init /\ [][Next]_vars

-----------------------------------------------------------------------------
(* The diff and the identity key as functions of their inputs *)

MaxDiffLen == 2

RowC == Row(1, 2012, <<"T">>, <<"P">>, <<"3">>)
\* two listings whose model and row label share a colon
RowD == Row(1, 2010, <<"T">>, <<"P",":","1">>, <<"4">>)
RowE == Row(1, 2010, <<"T">>, <<"P">>, <<"1",":","4">>)
\* RowA as a later scrape names its yard
RowA2 == [RowA EXCEPT !.yardName = <<"B">>]

DiffRows == {RowA, RowB, RowC, RowD, RowE, RowA2}

SeqsUpTo(S, n) == UNION { [1..k -> S] : k \in 0..n }

DiffInputs ==
    (SeqsUpTo(DiffRows, MaxDiffLen) \X SeqsUpTo(DiffRows, MaxDiffLen))
        \cup {<< <<RowA, RowB, RowC>>, <<RowA, RowB>> >>, << <<RowA>>, <<RowA, RowB>> >>}

InitDiff ==
    /\ store = <<>>
    /\ upstream = <<>>
    /\ nextId = 1
    /\ req = [h \in Handlers |-> Idle]
    /\ sweep = Idle
    /\ log = InitLog
    /\ out = Quiet
    /\ \/ \E in \in DiffInputs :
            call = [fn |-> "diffNewVehicles", current |-> in[1], previous |-> in[2],
                    done |-> FALSE]
       \/ \E a \in DiffRows, b \in DiffRows :
            call = [fn |-> "inventoryKey", a |-> a, b |-> b, done |-> FALSE]

ApplyDiff ==
    /\ call.fn = "diffNewVehicles" /\ ~call.done
    /\ call' = [fn |-> "diffNewVehicles", current |-> call.current, previous |-> call.previous,
                done |-> TRUE, result |-> diffNewVehicles(call.current, call.previous)]
    /\ UNCHANGED <<store, upstream, nextId, req, sweep, log, out>>

ApplyKey ==
    /\ call.fn = "inventoryKey" /\ ~call.done
    /\ call' = [fn |-> "inventoryKey", a |-> call.a, b |-> call.b, done |-> TRUE,
                keyA |-> inventoryKey(call.a), keyB |-> inventoryKey(call.b)]
    /\ UNCHANGED <<store, upstream, nextId, req, sweep, log, out>>

NextDiff == ApplyDiff \/ ApplyKey

SpecDiff == InitDiff /\ [][NextDiff]_vars

DiffDone == call.fn = "diffNewVehicles" /\ call.done
KeyDone == call.fn = "inventoryKey" /\ call.done

\* the identity tuple of a row
IdentityTuple(r) == <<r.yardId, r.year, r.make, r.model, r.row>>

\* the indexes of current whose identity key no row of previous has
NewIndexes(current, previous) ==
    { i \in 1..Len(current) :
        \A j \in 1..Len(previous) : inventoryKey(current[i]) # inventoryKey(previous[j]) }

\* C1: diffNewVehicles(current, previous) is the rows of current, in current's
\* order, whose identity key no row of previous has; previous=[A,B] and
\* current=[A,B,C] give [C], current=[A] gives [].
C1_DiffIsNewRowsInOrder ==
    DiffDone =>
        /\ \E f \in [1..Len(call.result) -> 1..Len(call.current)] :
              /\ \A k \in 1..Len(call.result) : \A l \in 1..Len(call.result) :
                    k < l => f[k] < f[l]
              /\ { f[k] : k \in 1..Len(call.result) } = NewIndexes(call.current, call.previous)
              /\ \A k \in 1..Len(call.result) : call.result[k] = call.current[f[k]]
        /\ (call.previous = <<RowA, RowB>> /\ call.current = <<RowA, RowB, RowC>>)
              => call.result = <<RowC>>
        /\ (call.previous = <<RowA, RowB>> /\ call.current = <<RowA>>)
              => call.result = <<>>

C1_Witness ==
    /\ DiffDone
    /\ call.previous = <<RowA, RowB>>
    /\ call.current = <<RowA, RowB, RowC>>
    /\ call.result = <<RowC>>

\* C2: two rows get the same identity key if and only if their
\* (yardId, year, make, model, row) tuples are equal field by field.
C2_KeyIffTupleEqual ==
    KeyDone => ((call.keyA = call.keyB) <=> (IdentityTuple(call.a) = IdentityTuple(call.b)))

-----------------------------------------------------------------------------
(* Claims about the sweep *)

Last(seq) == seq[Len(seq)]

\* the sweep has just aggregated a search and pushed its record without
\* attempting delivery, its lastNotifiedAt as it was read
StepSilent ==
    /\ sweep.pc = "loop"
    /\ sweep.refreshed # <<>>
    /\ Last(sweep.refreshed).id = log.step.id
    /\ Last(sweep.refreshed).lastNotifiedAt = log.step.before
    /\ out.delivery = NoDelivery

Stepped == log.step.id # Null

DeliveryStatuses == {"push sent", "push failed", "no push subscription"}

\* every copy of a record the program holds
AllRecords ==
    SetOf(store)
        \cup UNION { IF req[h].pc \in {"prefetch", "put"}
                     THEN SetOf(req[h].searches) \cup {req[h].base}
                     ELSE IF req[h].pc = "delput" THEN SetOf(req[h].searches) ELSE {}
                   : h \in Handlers }
        \cup (IF sweep.pc = "idle" THEN {}
              ELSE SetOf(sweep.searches) \cup SetOf(sweep.refreshed))

NeverNotified(r) ==
    /\ r.lastNotifiedAt = Null
    /\ r.lastNotificationStatus = NoStatus
    /\ r.lastNotificationPayload = NoPayload

NotifiedByDelivery(r) ==
    /\ r.lastNotifiedAt # Null
    /\ r.lastNotificationStatus \in DeliveryStatuses
    /\ r.lastNotificationPayload.alertId = r.id
    /\ r.lastNotificationPayload.count >= 1

\* C4: the three notification fields are null on a new record and are set,
\* all three, only from the outcome of a delivery that a sweep attempted after
\* finding at least one new vehicle; a sweep step that finds none attempts no
\* delivery, one that finds some attempts it and records its outcome.
C4_NotificationFieldsOnlyFromDelivery ==
    /\ \A r \in AllRecords : NeverNotified(r) \/ NotifiedByDelivery(r)
    /\ \A h \in Handlers : req[h].pc \in {"prefetch", "put"} => NeverNotified(req[h].base)
    /\ (Stepped /\ log.step.new = 0) => StepSilent
    /\ (Stepped /\ log.step.new > 0) => sweep.pc = "deliver"
    /\ sweep.pc = "deliver" => (Stepped /\ log.step.new > 0)
    /\ out.delivery # NoDelivery =>
          /\ out.delivery.count >= 1
          /\ sweep.pc = "loop"
          /\ Last(sweep.refreshed).id = out.delivery.id
          /\ Last(sweep.refreshed).lastNotifiedAt = out.delivery.at
          /\ Last(sweep.refreshed).lastNotificationStatus = out.delivery.status
          /\ Last(sweep.refreshed).lastNotificationPayload = out.delivery.payload

\* a stored record carries the outcome of a failed delivery
C4_Witness ==
    \E i \in 1..Len(store) :
        /\ NotifiedByDelivery(store[i])
        /\ store[i].lastNotificationStatus = "push failed"

\* C5: after a sweep has written with no writer between its read and its
\* write, every record's lastSnapshot is the row set aggregated for it during
\* that sweep, whether or not a new vehicle was found.
C5_SnapshotIsLastAggregation ==
    (log.swept /\ log.clean) =>
        \A i \in 1..Len(store) :
            /\ store[i].id \in DOMAIN log.check
            /\ store[i].lastSnapshot = log.check[store[i].id].snap

\* a clean sweep found nothing new for a record and emptied its snapshot
\* while the yard still lists the vehicle (the yard's fetch failed)
C5_Witness ==
    /\ log.swept /\ log.clean
    /\ upstream # <<>>
    /\ \E i \in 1..Len(store) : store[i].lastNotifiedAt = Null /\ store[i].lastSnapshot = <<>>

-----------------------------------------------------------------------------
(* Duplicate detection: creates in sequence, and creates racing each other *)
(* and the sweep                                                           *)

MaxDedupIds == 2
MaxRaceIds == 2
MaxRaceSweeps == 1

PayloadBase == Payload(<<"T">>, <<"P">>, 2010, 2015, Null, <<"e">>, <<"k">>, <<"d">>)
PayloadLowerMake == [PayloadBase EXCEPT !.make = <<"t">>]
PayloadPaddedMake == [PayloadBase EXCEPT !.make = <<" ", "T">>]
PayloadOtherModel == [PayloadBase EXCEPT !.model = <<>>]
PayloadOtherRange == [PayloadBase EXCEPT !.maxYear = 2010]
PayloadOtherEndpoint == [PayloadBase EXCEPT !.pushEndpoint = <<"f">>]
PayloadNoMake == [PayloadBase EXCEPT !.make = <<>>]

DedupPayloads ==
    {PayloadBase, PayloadLowerMake, PayloadPaddedMake, PayloadOtherModel,
     PayloadOtherRange, PayloadOtherEndpoint, PayloadNoMake}

InitEmpty(maxIds, maxSweeps) ==
    /\ store = <<>>
    /\ upstream = <<>>
    /\ nextId = 1
    /\ req = [h \in Handlers |-> Idle]
    /\ sweep = Idle
    /\ log = InitLogFor(maxIds, maxSweeps)
    /\ out = Quiet
    /\ call = NoCall

\* one request at a time
InitDedup == InitEmpty(MaxDedupIds, 0)

NextDedup == RequestSteps({"h1"}, Clients, DedupPayloads, 1..MaxDedupIds, {{}})

SpecDedup == InitDedup /\ [][NextDedup]_vars

\* two requests and the sweep interleaved
InitRace == InitEmpty(MaxRaceIds, MaxRaceSweeps)

NextRace ==
    \/ RequestSteps(Handlers, {ClientA}, {PayloadBase, PayloadOtherEndpoint}, {1}, {{}})
    \/ SweepSteps({{}})

SpecRace == InitRace /\ [][NextRace]_vars

CreateResponded == out.last.op = "create"

\* the create passed validation and read a store below both quotas
ValidBelowQuota ==
    /\ out.last.valid
    /\ out.last.facts.total < 500
    /\ out.last.facts.mine <= 24

\* C7: no two stored records of one owner have identical
\* (make, model, yearRange, pushEndpoint).
C7_NoDuplicatePerOwner ==
    \A i \in 1..Len(store) : \A j \in 1..Len(store) :
        (i # j /\ store[i].ownerKey = store[j].ownerKey) => ~SameKey(store[i], store[j])

\* one owner holds two records that differ in one field, and a create
\* repeating one of them has just been refused
C7_Witness ==
    /\ Len(store) = 2
    /\ store[1].ownerKey = store[2].ownerKey
    /\ CreateResponded /\ out.last.status = 409

\* C9: a create repeating (ownerKey, make, model, yearRange, pushEndpoint) of a
\* record in the store fails with 409 and stores nothing; one that differs from
\* every record of the owner in some field is accepted.
C9_ConflictIffSameKey ==
    (CreateResponded /\ ValidBelowQuota) =>
        /\ out.last.facts.sameKey => (out.last.status = 409 /\ ~out.last.wrote)
        /\ ~out.last.facts.sameKey => (out.last.status = 201 /\ out.last.wrote)

\* the second of two creates in sequence, identical to the first, is refused
C9_Witness ==
    /\ CreateResponded /\ ValidBelowQuota
    /\ out.last.facts.total = 1
    /\ out.last.facts.sameKey
    /\ out.last.status = 409
    /\ Len(store) = 1

\* C10: a create whose make or model differs from a record of the same owner
\* only in letter case, with the same year range and push endpoint, is refused
\* with 409.
C10_CaseVariantConflicts ==
    (CreateResponded /\ ValidBelowQuota /\ out.last.facts.sameKeyFold) => out.last.status = 409

-----------------------------------------------------------------------------
(* Quotas: creates and deletes on a store that is nearly full *)

MaxQuotaIds == 2

\* records stored before the requests explored here: a store one short of
\* full whose first owner is full, or one owner one short of full
TotalPrefill == MAX_ALERTS_TOTAL - 1
OwnerPrefill == MAX_ALERTS_PER_OWNER - 1

\* creates accepted, and sweeps started, from the store of the owner's records
\* alone: as many as fill the owner's quota
OwnerRoom == MAX_ALERTS_PER_OWNER - OwnerPrefill

FillerClient(k) == [ip |-> NumStr(k), ua |-> <<"f">>]

\* the record the create of (make T, minYear) by the client stored earlier
StoredEarlier(j, client, minYear) ==
    NewRecord(1000 + j, hashOwner(client), 0,
              validateAlertPayload(Payload(<<"T">>, <<>>, minYear, Null, Null,
                                           <<"e">>, <<"k">>, <<"d">>)))

\* n records: the first a of ClientA, the rest of other owners, up to
\* MAX_ALERTS_PER_OWNER each, every owner's records differing in minYear
Prefill(n, a) ==
    [j \in 1..n |->
        IF j <= a THEN StoredEarlier(j, ClientA, MIN_YEAR + j)
        ELSE StoredEarlier(j, FillerClient(10 + ((j - a - 1) \div MAX_ALERTS_PER_OWNER)),
                           MIN_YEAR + ((j - a - 1) % MAX_ALERTS_PER_OWNER))]

QuotaClients == {ClientA, ClientB}
QuotaPayloads == {PayloadAll, PayloadFrom2010, PayloadNoMake}
\* deletes name the first record created here
QuotaIds == {1}

\* either the nearly full store, its sweeps done, or the owner's records alone
InitQuota ==
    /\ upstream = <<>>
    /\ nextId = 1
    /\ req = [h \in Handlers |-> Idle]
    /\ sweep = Idle
    /\ out = Quiet
    /\ call = NoCall
    /\ \/ /\ store = Prefill(TotalPrefill, MAX_ALERTS_PER_OWNER)
          /\ log = InitLogFor(MaxQuotaIds, 0)
       \/ /\ store = Prefill(OwnerPrefill, OwnerPrefill)
          /\ log = InitLogFor(OwnerRoom, OwnerRoom)

NextQuota ==
    \/ RequestSteps(Handlers, QuotaClients, QuotaPayloads, QuotaIds, {{}})
    \/ SweepSteps({{}})

SpecQuota == InitQuota /\ [][NextQuota]_vars

OwnersOf(searches) == { searches[i].ownerKey : i \in 1..Len(searches) }

\* C6: the store never holds more than 500 records, nor more than 25 of one
\* ownerKey.
C6_QuotasHold ==
    /\ Len(store) <= 500
    /\ \A o \in OwnersOf(store) : Len(MineOf(store, o)) <= 25

\* the store is full and ClientA holds its full share
C6_Witness ==
    /\ Len(store) = 500
    /\ Len(MineOf(store, hashOwner(ClientA))) = 25

AtQuota == out.last.facts.mine >= 25 \/ out.last.facts.total >= 500

\* C8 as stated: a create by an owner with 25 records, or on a store of 500,
\* is refused with 429 and stores nothing; a valid, non-duplicate create below
\* both quotas succeeds.
C8_QuotaRejects ==
    CreateResponded =>
        /\ AtQuota => (out.last.status = 429 /\ ~out.last.wrote)
        /\ (ValidBelowQuota /\ ~out.last.facts.sameKey) => out.last.status = 201

\* C8 amended: a create that passes validation, by an owner with 25 records or
\* on a store of 500, is refused with 429 and stores nothing; a valid,
\* non-duplicate create below both quotas succeeds.
C8_ValidQuotaRejects ==
    CreateResponded =>
        /\ (out.last.valid /\ AtQuota) => (out.last.status = 429 /\ ~out.last.wrote)
        /\ (ValidBelowQuota /\ ~out.last.facts.sameKey) => out.last.status = 201

\* a valid 26th create of an owner has just been refused on a store with room
C8_Witness ==
    /\ CreateResponded /\ out.last.valid
    /\ out.last.facts.mine = 25
    /\ out.last.facts.total < 500
    /\ out.last.status = 429
    /\ Len(MineOf(store, out.last.ownerKey)) = 25

-----------------------------------------------------------------------------
(* What clients see: list, create and delete responses, one request at a time *)

MaxClientIds == 2

\* a record as stored by create, and the same record with no push endpoint
RecordWithPush ==
    NewRecord(7, hashOwner(ClientA), 0, validateAlertPayload(PayloadFrom2010))
RecordWithoutPush == [RecordWithPush EXCEPT !.pushEndpoint = <<>>]
RecordNotified ==
    [RecordWithPush EXCEPT !.lastNotifiedAt = 1, !.lastNotificationStatus = "sent"]

RedactInputs == {RecordWithPush, RecordWithoutPush, RecordNotified}

InitClient ==
    /\ store = <<>>
    /\ upstream = <<>>
    /\ nextId = 1
    /\ req = [h \in Handlers |-> Idle]
    /\ sweep = Idle
    /\ log = InitLogFor(MaxClientIds, 0)
    /\ out = Quiet
    /\ call \in { [fn |-> "redactSearchForClient", search |-> r, done |-> FALSE, result |-> NoBody] :
                    r \in RedactInputs }

ApplyRedact ==
    /\ call.fn = "redactSearchForClient"
    /\ ~call.done
    /\ call' = [call EXCEPT !.done = TRUE, !.result = redactSearchForClient(call.search)]
    /\ out' = Quiet
    /\ UNCHANGED <<store, upstream, nextId, req, sweep, log>>

ListSteps(clients) == \E c \in clients : ListAlerts(c)

NextClient ==
    \/ RequestSteps({"h1"}, Clients, {PayloadAll, PayloadFrom2010}, 1..MaxClientIds, {{}})
    \/ ListSteps(Clients)
    \/ ApplyRedact

SpecClient == InitClient /\ [][NextClient]_vars

RangeOfSeq(q) == { q[i] : i \in 1..Len(q) }

DeleteResponded == out.request.kind = "delete"

\* the response of a delete that names an id which the caller does not own
DeleteRefusal ==
    (DeleteResponded /\ ~out.request.found.owned) =>
        /\ out.last.status = 404
        /\ out.body = ErrorBody("Not found")
        /\ ~out.last.wrote

\* what a delete step does to the store
DeleteEffect ==
    out'.request.kind = "delete" =>
        IF out'.last.status = 200
        THEN /\ out'.request.found.owned
             /\ \A r \in RangeOfSeq(store) :
                    r \in RangeOfSeq(store') <=>
                        ~(r.id = out'.request.id /\ r.ownerKey = out'.last.ownerKey)
        ELSE store' = store

\* C11: delete removes a record only if both its id and its ownerKey match;
\* deleting another owner's record or a nonexistent id returns 404 "Not found"
\* in both cases, never succeeds and leaves the store unchanged.
C11_DeleteNeedsIdAndOwner == [](DeleteRefusal) /\ [][DeleteEffect]_vars

\* a delete of another owner's record has just been refused and the record stays
C11_Witness ==
    /\ DeleteResponded
    /\ out.request.found.known /\ ~out.request.found.owned
    /\ out.last.status = 404
    /\ \E i \in 1..Len(store) : store[i].id = out.request.id

ListResponded == out.body.kind = "list"

RemoveAt(q, k) == [i \in 1..(Len(q) - 1) |-> IF i < k THEN q[i] ELSE q[i + 1]]

\* C12: list returns exactly the stored records of the caller's ownerKey, and
\* the same list in a store that differs only in a record of another owner.
C12_ListIsOwnersRecords ==
    ListResponded =>
        /\ \A i \in 1..Len(out.body.alerts) : \E k \in 1..Len(store) :
               /\ store[k].id = out.body.alerts[i].id
               /\ store[k].ownerKey = out.last.ownerKey
        /\ \A k \in 1..Len(store) :
               store[k].ownerKey = out.last.ownerKey =>
                   \E i \in 1..Len(out.body.alerts) : out.body.alerts[i].id = store[k].id
        /\ out.body.count = Len(out.body.alerts)
        /\ out.body.count = Cardinality({ k \in 1..Len(store) : store[k].ownerKey = out.last.ownerKey })
        /\ \A k \in 1..Len(store) :
               store[k].ownerKey # out.last.ownerKey =>
                   listAlerts(RemoveAt(store, k), out.last.ownerKey) = out.body

\* an owner lists their record while the store also holds another owner's
C12_Witness ==
    /\ ListResponded
    /\ out.body.count = 1
    /\ Len(store) = 2

PushCredentialFields == {"pushEndpoint", "pushAuth", "pushP256dh"}

\* alert is the projection of search
IsRedactionOf(alert, search) ==
    /\ DOMAIN alert \cap PushCredentialFields = {}
    /\ alert.hasPush \in BOOLEAN
    /\ alert.hasPush <=> (search.pushEndpoint # <<>>)

StoredUnder(id) == { r \in RangeOfSeq(store) : r.id = id }

\* C13: every alert returned by list or by create is a redacted projection:
\* no pushEndpoint, pushAuth or pushP256dh, and hasPush true exactly when the
\* record has a push endpoint.
C13_ResponsesAreRedacted ==
    /\ ListResponded =>
           \A i \in 1..Len(out.body.alerts) :
               \A r \in StoredUnder(out.body.alerts[i].id) : IsRedactionOf(out.body.alerts[i], r)
    /\ out.body.kind = "created" =>
           /\ StoredUnder(out.body.alert.id) # {}
           /\ \A r \in StoredUnder(out.body.alert.id) : IsRedactionOf(out.body.alert, r)
    /\ (call.fn = "redactSearchForClient" /\ call.done) => IsRedactionOf(call.result, call.search)

\* a create has just returned its alert, and a record without endpoint was projected
C13_Witness ==
    /\ out.body.kind = "created"
    /\ out.body.alert.hasPush
    /\ call.done /\ ~call.result.hasPush

-----------------------------------------------------------------------------
(* Payload validation: year ranges and push subscriptions *)

MaxValidIds == 1

\* how many of YearChoices the payloads draw their years from
MaxYearInputs == 4
YearChoices == <<Null, 2015, 2010, 1899, 2101, 1900, 2100>>
YearInputs == { YearChoices[i] : i \in 1..Min2(MaxYearInputs, Len(YearChoices)) }

\* every min and max among the inputs, and three payloads with a single year
YearPayloads ==
    { Payload(<<"T">>, <<>>, mn, mx, Null, <<"e">>, <<"k">>, <<"d">>) :
        mn \in YearInputs, mx \in YearInputs }
    \cup { Payload(<<"T">>, <<>>, Null, Null, 2010, <<"e">>, <<"k">>, <<"d">>),
           Payload(<<"T">>, <<>>, 2015, Null, 2010, <<"e">>, <<"k">>, <<"d">>),
           Payload(<<"T">>, <<>>, Null, Null, 1899, <<"e">>, <<"k">>, <<"d">>) }

\* a browser PushSubscription serialised with keys, and one with flat auth/p256dh
SubWithKeys == [present |-> TRUE, endpoint |-> <<"e">>, keysAuth |-> <<"k">>, auth |-> <<>>,
                keysP256dh |-> <<"d">>, p256dh |-> <<>>]
SubFlat == [SubWithKeys EXCEPT !.keysAuth = <<>>, !.auth = <<"k">>,
                               !.keysP256dh = <<>>, !.p256dh = <<"d">>]
SubNoAuth == [SubWithKeys EXCEPT !.keysAuth = <<>>]
SubBlankEndpoint == [SubWithKeys EXCEPT !.endpoint = <<" ">>]

PayloadNoPush == Payload(<<"T">>, <<>>, Null, Null, Null, <<>>, <<>>, <<>>)

PushPayloads ==
    {[PayloadNoPush EXCEPT !.subscription = SubWithKeys],
     [PayloadNoPush EXCEPT !.pushSubscription = SubFlat],
     [PayloadNoPush EXCEPT !.subscription = SubNoAuth],
     [PayloadNoPush EXCEPT !.subscription = SubNoAuth, !.pushAuth = <<"k">>],
     [PayloadNoPush EXCEPT !.subscription = SubNoAuth, !.pushSubscription = SubFlat],
     [PayloadNoPush EXCEPT !.subscription = SubBlankEndpoint],
     [PayloadNoPush EXCEPT !.pushEndpoint = <<"e">>, !.pushAuth = <<"k">>],
     [PayloadNoPush EXCEPT !.pushEndpoint = <<"e">>, !.pushP256dh = <<"d">>],
     [PayloadNoPush EXCEPT !.pushAuth = <<"k">>, !.pushP256dh = <<"d">>],
     [PayloadNoPush EXCEPT !.pushEndpoint = <<" ">>, !.pushAuth = <<"k">>, !.pushP256dh = <<"d">>],
     [PayloadNoPush EXCEPT !.pushEndpoint = <<" ", "e">>, !.pushAuth = <<"k">>, !.pushP256dh = <<"d">>],
     PayloadNoPush}

\* (min, max, single) triples handed to deriveYearRange directly
DeriveInputs == {<<2015, 2010, Null>>, <<1899, 2010, Null>>}

InitValidate ==
    /\ store = <<>>
    /\ upstream = <<>>
    /\ nextId = 1
    /\ req = [h \in Handlers |-> Idle]
    /\ sweep = Idle
    /\ log = InitLogFor(MaxValidIds, 0)
    /\ out = Quiet
    /\ call \in { [fn |-> "deriveYearRange", source |-> t, done |-> FALSE,
                   strict |-> FALSE, result |-> NoBody] : t \in DeriveInputs }

ApplyDerive(strict) ==
    /\ call.fn = "deriveYearRange"
    /\ ~call.done
    /\ call' = [call EXCEPT !.done = TRUE, !.strict = strict,
                            !.result = deriveYearRange(call.source[1], call.source[2],
                                                       call.source[3], strict)]
    /\ out' = Quiet
    /\ UNCHANGED <<store, upstream, nextId, req, sweep, log>>

NextValidate ==
    \/ RequestSteps({"h1"}, {ClientA}, YearPayloads \cup PushPayloads, 1..MaxValidIds, {{}})
    \/ \E strict \in BOOLEAN : ApplyDerive(strict)

SpecValidate == InitValidate /\ [][NextValidate]_vars

InYearBounds(y) == y >= 1900 /\ y <= 2100

\* the years a payload gives, VehicleMinYear before minYear and so on
GivenYears(p) ==
    [min |-> Coalesce(p.VehicleMinYear, p.minYear),
     max |-> Coalesce(p.VehicleMaxYear, p.maxYear),
     single |-> Coalesce(p.VehicleYear, p.year)]

GivesReversedOrOutOfBounds(p) ==
    LET g == GivenYears(p)
    IN  \/ g.min # Null /\ g.max # Null /\ g.min > g.max
        \/ \E y \in {g.min, g.max, g.single} : y # Null /\ ~InYearBounds(y)

CreateAnswered == out.request.kind = "create"

InFlightAndStored ==
    RangeOfSeq(store) \cup { req[h].base : h \in { k \in Handlers : req[k].pc \in {"prefetch", "put"} } }

\* C14: a create whose payload gives minYear > maxYear or a year outside
\* [1900, 2100] gets 400 and stores nothing; the lenient derivation swaps
\* reversed bounds instead of failing; every record stored by create has
\* minYear <= maxYear when both are present.
C14_StrictRejectsLenientSwaps ==
    /\ (CreateAnswered /\ GivesReversedOrOutOfBounds(out.request.payload)) =>
           (out.last.status = 400 /\ ~out.last.wrote)
    /\ (call.fn = "deriveYearRange" /\ call.done) =>
           LET mn == call.source[1]
               mx == call.source[2]
               reversed == /\ mn # Null /\ mx # Null /\ InYearBounds(mn) /\ InYearBounds(mx)
                           /\ mn > mx
           IN  IF call.strict
               THEN reversed => ~call.result.ok
               ELSE /\ call.result.ok
                    /\ reversed => (call.result.minYear = mx /\ call.result.maxYear = mn)
    /\ \A r \in InFlightAndStored :
           (r.VehicleMinYear # Null /\ r.VehicleMaxYear # Null) =>
               r.VehicleMinYear <= r.VehicleMaxYear

\* a reversed payload has just been refused, the lenient derivation has swapped
\* {2015, 2010}, and a record with both bounds is stored
C14_Witness ==
    /\ CreateAnswered /\ out.last.status = 400
    /\ GivenYears(out.request.payload).min = 2015
    /\ GivenYears(out.request.payload).max = 2010
    /\ call.done /\ ~call.strict /\ call.source = <<2015, 2010, Null>>
    /\ call.result.minYear = 2010 /\ call.result.maxYear = 2015
    /\ \E r \in RangeOfSeq(store) : r.VehicleMinYear = 2010 /\ r.VehicleMaxYear = 2015

NonBlank(text) == Trim(text) # <<>>

NestedComplete(sub) ==
    /\ sub.present
    /\ NonBlank(sub.endpoint)
    /\ NonBlank(sub.keysAuth) \/ NonBlank(sub.auth)
    /\ NonBlank(sub.keysP256dh) \/ NonBlank(sub.p256dh)

FlatComplete(p) == NonBlank(p.pushEndpoint) /\ NonBlank(p.pushAuth) /\ NonBlank(p.pushP256dh)

GivesPushTriple(p) ==
    NestedComplete(p.subscription) \/ NestedComplete(p.pushSubscription) \/ FlatComplete(p)

\* C15: a create without a complete push triple (endpoint, auth, p256dh), nested
\* or flat, gets 400; every record stored by create has all three non-empty.
C15_PushTripleRequired ==
    /\ (CreateAnswered /\ ~GivesPushTriple(out.request.payload)) =>
           (out.last.status = 400 /\ ~out.last.wrote)
    /\ \A r \in InFlightAndStored :
           r.pushEndpoint # <<>> /\ r.pushAuth # <<>> /\ r.pushP256dh # <<>>

\* a create with a nested subscription has just been stored
C15_Witness ==
    /\ CreateAnswered /\ out.last.status = 201
    /\ out.request.payload.subscription.present
    /\ out.request.payload.pushEndpoint = <<>>
    /\ \E r \in RangeOfSeq(store) : r.pushEndpoint = <<"e">> /\ r.pushAuth = <<"k">>

-----------------------------------------------------------------------------
(* Last writer wins *)

IdsOf(searches) == { searches[i].id : i \in 1..Len(searches) }

\* the step is the sweep's bulk write
SweepWrites == sweep.pc = "loop" /\ sweep'.pc = "idle"

\* C16: the sweep's final write overwrites what completed since its read: a
\* record created in that window is absent from the store afterwards and a
\* record deleted in that window is present again.
C16_SweepWriteOverwrites ==
    [][SweepWrites =>
           /\ \A id \in IdsOf(store) \ IdsOf(sweep.searches) : id \notin IdsOf(store')
           /\ \A id \in IdsOf(sweep.searches) \ IdsOf(store) : id \in IdsOf(store')]_vars

\* one record was ever created, a write landed during the sweep, and the
\* record is in the store after the sweep's write: its deletion was undone
C16_Witness ==
    /\ log.swept /\ ~log.clean
    /\ nextId = 2
    /\ IdsOf(store) = {1}

-----------------------------------------------------------------------------
(* runPool: the fan-out over the yard tasks *)

MaxPoolTasks == 4

\* lines 128 and 415: runPool(jobs, 2)
POOL_LIMIT == 2

\* a hole of the results array: no task has index 0
Unset == <<0>>

\* the rows task idx resolves with when its yard answers with rows
TaskRows(idx) == <<idx>>

TaskOutcomes == {"rows", "empty", "fail"}

\* a mutation with one worker per task
workerCountPerTask(limit, len) == Max2(1, len)

\* line 344: Math.max(1, Math.min(limit, taskFns.length))
workerCount(limit, len) == Max2(1, Min2(limit, len))

\* a mutation of the loop test that leaves the last task out
hasMoreTasksButLast(i, len) == i < len

\* line 333: i < taskFns.length, with i counted from 1
hasMoreTasks(i, len) == i <= len

\* a mutation without the catch
settleTaskNoCatch(outcome, idx) ==
    [threw |-> outcome = "fail",
     value |-> IF outcome = "rows" THEN TaskRows(idx) ELSE <<>>]

\* lines 335-339: results[idx] is the task's value, or [] when it threw
settleTask(outcome, idx) ==
    [threw |-> FALSE,
     value |-> IF outcome = "rows" THEN TaskRows(idx) ELSE <<>>]

\* lines 333-335: worker w tests the loop condition, takes the next index and
\* starts its task, or leaves the loop
TakeNext(pool, w) ==
    IF hasMoreTasks(pool.i, pool.len)
    THEN [pool EXCEPT !.workers[w] = pool.i, !.started[pool.i] = @ + 1, !.i = @ + 1]
    ELSE [pool EXCEPT !.workers[w] = 0]

RECURSIVE SpawnWorkers(_, _, _)
\* line 345: the workers are called one after another, each running up to its
\* first await
SpawnWorkers(pool, w, n) ==
    IF w > n THEN pool ELSE SpawnWorkers(TakeNext(pool, w), w + 1, n)

InFlight(pool) == { pool.workers[w] : w \in DOMAIN pool.workers } \ {0}

NewPool(len, limit) ==
    [fn |-> "runPool", phase |-> "called", len |-> len, limit |-> limit, i |-> 1,
     results |-> [idx \in 1..len |-> Unset],
     workers |-> EmptyFn,
     started |-> [idx \in 1..len |-> 0],
     outcome |-> [idx \in 1..len |-> "none"],
     value |-> <<>>]

InitPool ==
    /\ store = <<>>
    /\ upstream = <<>>
    /\ nextId = 1
    /\ req = [h \in Handlers |-> Idle]
    /\ sweep = Idle
    /\ log = InitLogFor(0, 0)
    /\ out = Quiet
    /\ call \in { NewPool(len, POOL_LIMIT) : len \in 0..MaxPoolTasks }

\* lines 344-345: the call creates the workers
PoolStart ==
    /\ call.fn = "runPool" /\ call.phase = "called"
    /\ LET n == workerCount(call.limit, call.len)
           spawned == SpawnWorkers([call EXCEPT !.workers = [w \in 1..n |-> 0]], 1, n)
       IN  call' = [spawned EXCEPT !.phase = "running"]
    /\ UNCHANGED <<store, upstream, nextId, req, sweep, log, out>>

\* lines 335-339 then 333: the task worker w awaits settles, the worker stores
\* its result and goes round the loop; without the catch the pool would reject
PoolSettle(w, outcome) ==
    /\ call.fn = "runPool" /\ call.phase = "running"
    /\ w \in DOMAIN call.workers
    /\ call.workers[w] # 0
    /\ LET idx == call.workers[w]
           settled == settleTask(outcome, idx)
           stored == [call EXCEPT !.results[idx] = settled.value, !.outcome[idx] = outcome]
       IN  IF settled.threw
           THEN call' = [call EXCEPT !.phase = "rejected", !.outcome[idx] = outcome]
           ELSE call' = TakeNext(stored, w)
    /\ UNCHANGED <<store, upstream, nextId, req, sweep, log, out>>

\* lines 345-346: every worker has left its loop
PoolReturn ==
    /\ call.fn = "runPool" /\ call.phase = "running"
    /\ \A w \in DOMAIN call.workers : call.workers[w] = 0
    /\ call' = [call EXCEPT !.phase = "returned", !.value = call.results]
    /\ UNCHANGED <<store, upstream, nextId, req, sweep, log, out>>

NextPool ==
    \/ PoolStart
    \/ \E w \in 1..(MaxPoolTasks + 1), outcome \in TaskOutcomes : PoolSettle(w, outcome)
    \/ PoolReturn

SpecPool == InitPool /\ [][NextPool]_vars

PoolRuns == call.fn = "runPool"
PoolReturned == PoolRuns /\ call.phase = "returned"

\* C17: during one runPool with limit 2, at most 2 tasks are in flight at any
\* time, for any number of tasks and any order of completion.
C17_AtMostTwoInFlight ==
    PoolRuns => Cardinality(InFlight(call)) <= 2

\* two tasks in flight after earlier ones settled, of more tasks than workers
C17_Witness ==
    /\ PoolRuns /\ call.phase = "running"
    /\ call.len >= 4
    /\ Cardinality(InFlight(call)) = 2
    /\ call.outcome[2] # "none" /\ call.outcome[1] = "none"

\* C18: a failed task contributes zero rows, every other task's rows are
\* returned, and runPool never rejects because of a task.
C18_FailedYardIsEmpty ==
    PoolRuns =>
        /\ call.phase # "rejected"
        /\ PoolReturned =>
               \A idx \in 1..call.len :
                   /\ call.outcome[idx] = "fail" => call.value[idx] = <<>>
                   /\ call.outcome[idx] = "rows" => call.value[idx] = TaskRows(idx)

\* the pool returned with a failed task between two that gave rows
C18_Witness ==
    /\ PoolReturned
    /\ call.len >= 3
    /\ call.outcome[1] = "rows" /\ call.outcome[2] = "fail" /\ call.outcome[3] = "rows"
    /\ call.value[2] = <<>> /\ call.value[3] = TaskRows(3)

\* C19: runPool returns only after every task was started exactly once and
\* settled; no task runs twice; the returned array holds each task's result at
\* its own index, the empty list for a failed task.
C19_PoolExhaustsTasks ==
    PoolRuns =>
        /\ \A idx \in 1..call.len : call.started[idx] <= 1
        /\ PoolReturned =>
               /\ DOMAIN call.value = 1..call.len
               /\ \A idx \in 1..call.len :
                      /\ call.started[idx] = 1
                      /\ call.outcome[idx] # "none"
                      /\ call.value[idx] # Unset
                      /\ call.value[idx] = IF call.outcome[idx] = "rows" THEN TaskRows(idx) ELSE <<>>

\* the pool returned after more tasks than workers, one of each outcome
C19_Witness ==
    /\ PoolReturned
    /\ call.len = 3
    /\ call.outcome = <<"rows", "empty", "fail">>

-----------------------------------------------------------------------------
(* POST /search: handleSearchAll *)

MaxSearchRows == 3

\* the characters of names in collation order, letters by their upper case
NameAlphabet ==
    <<" ", "'", "A", "B", "C", "D", "E", "F", "G", "H", "I", "J", "K", "L", "M", "N",
      "O", "P", "Q", "R", "S", "T", "U", "V", "W", "X", "Y", "Z">>

CharRank(c) == CHOOSE k \in 1..Len(NameAlphabet) : NameAlphabet[k] = c

LowerLetters ==
    <<"a", "b", "c", "d", "e", "f", "g", "h", "i", "j", "k", "l", "m", "n", "o", "p",
      "q", "r", "s", "t", "u", "v", "w", "x", "y", "z">>

UpperLetters ==
    <<"A", "B", "C", "D", "E", "F", "G", "H", "I", "J", "K", "L", "M", "N", "O", "P",
      "Q", "R", "S", "T", "U", "V", "W", "X", "Y", "Z">>

IsLower(c) == \E k \in 1..Len(LowerLetters) : LowerLetters[k] = c

ToUpper(c) ==
    IF IsLower(c) THEN UpperLetters[CHOOSE k \in 1..Len(LowerLetters) : LowerLetters[k] = c]
    ELSE c

RECURSIVE primaryCompare(_, _)
\* the first level of the collation: letter by letter, case ignored
primaryCompare(a, b) ==
    IF a = <<>> /\ b = <<>> THEN 0
    ELSE IF a = <<>> THEN -1
    ELSE IF b = <<>> THEN 1
    ELSE IF ToUpper(Head(a)) # ToUpper(Head(b))
    THEN CharRank(ToUpper(Head(a))) - CharRank(ToUpper(Head(b)))
    ELSE primaryCompare(Tail(a), Tail(b))

RECURSIVE caseCompare(_, _)
\* the case level of the collation, for texts equal but for case: at the first
\* difference the lower-case letter goes first
caseCompare(a, b) ==
    IF a = <<>> \/ b = <<>> THEN 0
    ELSE IF Head(a) # Head(b) THEN (IF IsLower(Head(a)) THEN -1 ELSE 1)
    ELSE caseCompare(Tail(a), Tail(b))

\* a.localeCompare(b): negative, zero or positive
localeCompare(a, b) ==
    IF primaryCompare(a, b) # 0 THEN primaryCompare(a, b) ELSE caseCompare(a, b)

\* year ?? 0
YearOrZero(y) == IF y = Null THEN 0 ELSE y

\* a mutation that orders the years of a yard ascending
compareResultsYearAscending(a, b) ==
    IF a.yardName # b.yardName THEN localeCompare(a.yardName, b.yardName)
    ELSE YearOrZero(a.year) - YearOrZero(b.year)

\* lines 131-134: the comparator handed to sort
compareResults(a, b) ==
    IF a.yardName # b.yardName THEN localeCompare(a.yardName, b.yardName)
    ELSE YearOrZero(b.year) - YearOrZero(a.year)

RECURSIVE InsertSorted(_, _)
\* r goes after every row that does not compare greater than it
InsertSorted(sorted, r) ==
    IF sorted = <<>> THEN <<r>>
    ELSE IF compareResults(Head(sorted), r) > 0 THEN <<r>> \o sorted
    ELSE <<Head(sorted)>> \o InsertSorted(Tail(sorted), r)

RECURSIVE sortResults(_)
\* Array.prototype.sort with compareResults: a stable sort
sortResults(rows) ==
    IF rows = <<>> THEN <<>>
    ELSE InsertSorted(sortResults(SubSeq(rows, 1, Len(rows) - 1)), rows[Len(rows)])

\* lines 106-148
handleSearchAll(up, method, make, model, failed) ==
    LET VehicleMake == Trim(make)
        VehicleModel == Trim(model)
        all == PoolResults(up, failed, VehicleMake, VehicleModel)
        results == sortResults(Flat(all))
    IN  IF method # "POST" THEN [status |-> 405, body |-> ErrorBody("POST only")]
        ELSE IF VehicleMake = <<>>
        THEN [status |-> 400, body |-> ErrorBody("VehicleMake is required")]
        ELSE [status |-> 200,
              body |-> [kind |-> "search", count |-> Len(results), results |-> results]]

SearchAll(method, make, model, failed) ==
    /\ LET response == handleSearchAll(upstream, method, make, model, failed)
       IN  out' = [Quiet EXCEPT !.last = Respond("search", response.status, <<>>,
                                                 response.status = 200, NoFacts, FALSE),
                                !.request = [kind |-> "search", make |-> make, model |-> model,
                                             failed |-> failed],
                                !.body = response.body]
    /\ UNCHANGED <<store, upstream, nextId, req, sweep, log, call>>

\* rows of one make on four yards, TWIN FALLS listed before TRUSTY'S as in YARDS
SearchRows ==
    {Row(1, 2010, <<"T">>, <<"P">>, <<"1">>),
     Row(1, 2005, <<"T">>, <<"P">>, <<"2">>),
     Row(5, 2010, <<"T">>, <<"P">>, <<"3">>),
     Row(6, 2012, <<"T">>, <<"C">>, <<"4">>),
     Row(2, 2012, <<"T">>, <<"C">>, <<"5">>)}

InitSearch ==
    /\ store = <<>>
    /\ upstream \in SeqsUpTo(SearchRows, MaxSearchRows)
    /\ nextId = 1
    /\ req = [h \in Handlers |-> Idle]
    /\ sweep = Idle
    /\ log = InitLogFor(0, 0)
    /\ out = Quiet
    /\ call = NoCall

NextSearch ==
    \E method \in {"POST", "GET"}, make \in {<<"T">>, <<" ", "T">>, <<>>},
       model \in {<<>>, <<"P">>}, failed \in {{}, {1}} :
        SearchAll(method, make, model, failed)

SpecSearch == InitSearch /\ [][NextSearch]_vars

SearchAnswered == out.body.kind = "search"

\* the yard names in ascending order: BOISE, CALDWELL, GARDEN CITY, NAMPA,
\* TRUSTY'S, TWIN FALLS
YardNamesAscending ==
    <<YARDS[1].name, YARDS[2].name, YARDS[3].name, YARDS[4].name, YARDS[6].name, YARDS[5].name>>

NamePosition(name) == CHOOSE k \in 1..Len(YardNamesAscending) : YardNamesAscending[k] = name

Occurrences(q, x) == Cardinality({ i \in 1..Len(q) : q[i] = x })

\* what the yards returned for the request, in YARDS order
YardRowsFor(request) ==
    Flat(PoolResults(upstream, request.failed, Trim(request.make), Trim(request.model)))

\* C20: search returns a permutation of the concatenation of all yards' rows,
\* ordered by yard name ascending and, within a yard, by year descending.
C20_SearchIsSortedPermutation ==
    SearchAnswered =>
        LET results == out.body.results
            given == YardRowsFor(out.request)
        IN  /\ Len(results) = Len(given)
            /\ out.body.count = Len(given)
            /\ \A x \in RangeOfSeq(given) \cup RangeOfSeq(results) :
                   Occurrences(results, x) = Occurrences(given, x)
            /\ \A i \in 1..Len(results) : \A j \in 1..Len(results) :
                   i < j =>
                       /\ NamePosition(results[i].yardName) <= NamePosition(results[j].yardName)
                       /\ results[i].yardName = results[j].yardName =>
                              results[i].year >= results[j].year

\* a search whose sort moved rows: within a yard and across TWIN FALLS / TRUSTY'S
C20_Witness ==
    /\ SearchAnswered
    /\ Len(out.body.results) = 3
    /\ out.body.results # YardRowsFor(out.request)
    /\ out.body.results[1].yardName = YARDS[1].name
    /\ out.body.results[2].yardName = YARDS[6].name
    /\ out.body.results[3].yardName = YARDS[5].name

-----------------------------------------------------------------------------
(* POST /search step by step: the yard tasks in the pool and the edge cache *)

MaxSearchRuns == 2

\* a mutation of the cache key that leaves the yard out
cacheKeyNoYard(yard, VehicleMake, VehicleModel) == <<<<>>, VehicleMake, VehicleModel>>

\* lines 208-212: the cache key names the yard, the make and the model
cacheKey(yard, VehicleMake, VehicleModel) == <<yard.id, VehicleMake, VehicleModel>>

\* JSON.stringify then cached.json() of the rows: strings and 4-digit numbers
jsonRows(rows) ==
    [i \in 1..Len(rows) |->
        [yardId |-> rows[i].yardId, yardName |-> rows[i].yardName, year |-> rows[i].year,
         make |-> rows[i].make, model |-> rows[i].model, row |-> rows[i].row]]

\* lines 215-218: cache.match
cacheMatch(cache, key) == { e \in cache : e.key = key }

\* lines 241-242: cache.put replaces the entry of the key
cachePut(cache, key, rows) ==
    { e \in cache : e.key # key } \cup {[key |-> key, rows |-> jsonRows(rows)]}

\* lines 206-244, one yard task of lines 116-126: a cache hit answers without
\* a fetch; otherwise the yard is fetched, which throws for a yard in failed,
\* and the parsed rows are cached
inventoryTask(cache, up, idx, VehicleMake, VehicleModel, failed) ==
    LET key == cacheKey(YARDS[idx], VehicleMake, VehicleModel)
        cached == cacheMatch(cache, key)
        rows == fetchAndParseInventory(up, YARDS[idx], VehicleMake, VehicleModel)
    IN  IF cached # {}
        THEN [threw |-> FALSE, hit |-> TRUE, rows |-> (CHOOSE e \in cached : TRUE).rows,
              cache |-> cache]
        ELSE IF idx \in failed
        THEN [threw |-> TRUE, hit |-> FALSE, rows |-> <<>>, cache |-> cache]
        ELSE [threw |-> FALSE, hit |-> FALSE, rows |-> rows,
              cache |-> cachePut(cache, key, rows)]

\* the worker between two requests: what the client asks, the cache, and the
\* results of the requests answered so far
SearchIdle(make, model, failed, cache, runs) ==
    [fn |-> "searchAll", phase |-> "called", len |-> 0, limit |-> POOL_LIMIT, i |-> 1,
     results |-> <<>>, workers |-> EmptyFn, started |-> <<>>, outcome |-> <<>>,
     value |-> <<>>, make |-> make, model |-> model, failed |-> failed,
     cache |-> cache, first |-> 0, hits |-> 0, runs |-> runs]

\* yards 1, 5 and 6 list the make, yard 1 two model years in ascending order
SearchListing ==
    <<Row(5, 2010, <<"T">>, <<"P">>, <<"3">>),
      Row(1, 2005, <<"T">>, <<"P">>, <<"2">>),
      Row(6, 2012, <<"T">>, <<"C">>, <<"4">>),
      Row(1, 2010, <<"T">>, <<"P">>, <<"1">>)>>

InitSearchPool ==
    /\ store = <<>>
    /\ upstream \in {<<>>, SearchListing}
    /\ nextId = 1
    /\ req = [h \in Handlers |-> Idle]
    /\ sweep = Idle
    /\ log = InitLogFor(0, 0)
    /\ out = Quiet
    /\ call \in { SearchIdle(make, model, failed, {}, <<>>) :
                    make \in {<<"T">>, <<" ", "T">>, <<>>},
                    model \in {<<>>, <<"P">>},
                    failed \in {{}, {1}, {5, 6}} }

\* lines 107-128 and 344-345: the request is checked, the six yard jobs are
\* handed to runPool and the two workers start the first two
SearchPoolStart(method) ==
    /\ call.fn = "searchAll" /\ call.phase \in {"called", "returned"}
    /\ Len(call.runs) < MaxSearchRuns
    /\ LET VehicleMake == Trim(call.make)
           n == workerCount(POOL_LIMIT, Len(YARDS))
           fresh == [call EXCEPT !.len = Len(YARDS), !.i = 1,
                                 !.results = [idx \in YardIdx |-> Unset],
                                 !.workers = [w \in 1..n |-> 0],
                                 !.started = [idx \in YardIdx |-> 0],
                                 !.outcome = [idx \in YardIdx |-> "none"],
                                 !.value = <<>>, !.first = 0, !.hits = 0]
           Reject(status, msg) ==
               /\ out' = [Quiet EXCEPT !.last = Respond("search", status, <<>>, FALSE, NoFacts, FALSE),
                                       !.request = [kind |-> "search", make |-> call.make,
                                                    model |-> call.model, failed |-> call.failed],
                                       !.body = ErrorBody(msg)]
               /\ call' = [call EXCEPT !.phase = "returned"]
       IN  IF method # "POST" THEN Reject(405, T("POST only"))
           ELSE IF VehicleMake = <<>> THEN Reject(400, T("VehicleMake is required"))
           ELSE /\ call' = [SpawnWorkers(fresh, 1, n) EXCEPT !.phase = "running"]
                /\ out' = Quiet
    /\ UNCHANGED <<store, upstream, nextId, req, sweep, log>>

\* lines 335-339 then 333: the task of worker w settles, its rows (or [] when
\* it threw) are stored at the task's index, and the worker takes the next task
SearchPoolSettle(w) ==
    /\ call.fn = "searchAll" /\ call.phase = "running"
    /\ w \in DOMAIN call.workers
    /\ call.workers[w] # 0
    /\ LET idx == call.workers[w]
           task == inventoryTask(call.cache, upstream, idx, Trim(call.make), Trim(call.model),
                                 call.failed)
           stored == [call EXCEPT !.results[idx] = IF task.threw THEN <<>> ELSE task.rows,
                                  !.outcome[idx] = IF task.threw THEN "fail" ELSE "rows",
                                  !.cache = task.cache,
                                  !.hits = IF task.hit THEN @ + 1 ELSE @,
                                  !.first = IF @ = 0 THEN idx ELSE @]
       IN  call' = TakeNext(stored, w)
    /\ UNCHANGED <<store, upstream, nextId, req, sweep, log, out>>

\* lines 345-346 and 131-149: the pool returns, the rows are flattened and
\* sorted, and the client is answered
SearchPoolReturn ==
    /\ call.fn = "searchAll" /\ call.phase = "running"
    /\ \A w \in DOMAIN call.workers : call.workers[w] = 0
    /\ LET results == sortResults(Flat(call.results))
       IN  /\ call' = [call EXCEPT !.phase = "returned", !.value = call.results,
                                   !.runs = Append(@, [results |-> results,
                                                       first |-> call.first,
                                                       hits |-> call.hits])]
           /\ out' = [Quiet EXCEPT !.last = Respond("search", 200, <<>>, TRUE, NoFacts, FALSE),
                                   !.request = [kind |-> "search", make |-> call.make,
                                                model |-> call.model, failed |-> call.failed],
                                   !.body = [kind |-> "search", count |-> Len(results),
                                             results |-> results]]
    /\ UNCHANGED <<store, upstream, nextId, req, sweep, log>>

\* line 241: max-age=300, the cached listings expire between two requests
SearchCacheExpire ==
    /\ call.fn = "searchAll" /\ call.phase = "returned"
    /\ call.cache # {}
    /\ call' = [call EXCEPT !.cache = {}]
    /\ UNCHANGED <<store, upstream, nextId, req, sweep, log, out>>

NextSearchPool ==
    \/ \E method \in {"POST", "GET"} : SearchPoolStart(method)
    \/ \E w \in 1..POOL_LIMIT : SearchPoolSettle(w)
    \/ SearchPoolReturn
    \/ SearchCacheExpire

SpecSearchPool == InitSearchPool /\ [][NextSearchPool]_vars

\* the rows the request is answered with when every yard gives its fixed result
SearchOutcome ==
    sortResults(Flat(PoolResults(upstream, call.failed, Trim(call.make), Trim(call.model))))

\* C21: for fixed per-yard results a search returns the same row sequence
\* whichever order the yard tasks complete in and whichever worker runs them,
\* and a repeated search with no upstream change returns the identical sequence.
C21_SearchIsOrderIndependent ==
    call.fn = "searchAll" =>
        /\ \A k \in 1..Len(call.runs) : call.runs[k].results = SearchOutcome
        /\ \A j \in 1..Len(call.runs) : \A k \in 1..Len(call.runs) :
               call.runs[j].results = call.runs[k].results
        /\ (out.body.kind = "search") => out.body.results = SearchOutcome

\* two answered searches whose tasks completed in different orders, the
\* second served from the cache, with rows of three yards that the sort moved
C21_Witness ==
    /\ call.fn = "searchAll" /\ call.phase = "returned"
    /\ Len(call.runs) = 2
    /\ call.runs[1].first # call.runs[2].first
    /\ call.runs[2].hits > 0
    /\ Len(call.runs[2].results) = 4
    /\ call.runs[2].results # Flat(call.value)

-----------------------------------------------------------------------------
(* POST /makes and POST /models: handleMakesAll and handleModelsAll *)

MaxNameLen == 2

\* lines 15-22: the kind of a yard
kindOf(y) == IF y.id = <<"t", "r", "u", "s", "t", "y">> THEN "trusty" ELSE "jalopy"

\* what a yard answers: a JSON value that is an array of entries or is not, an
\* entry being its name, empty when the entry has none
Answer(isArray, entries) == [isArray |-> isArray, entries |-> entries]

NonEmptyName(name) == name # <<>>

\* lines 162, 187 and 191: (Array.isArray(v) ? v : []).map(name).filter(Boolean)
namesOfAnswer(answer) ==
    IF answer.isArray THEN SelectSeq(answer.entries, NonEmptyName) ELSE <<>>

\* lines 288-300: the option values of the make select, trimmed, blanks skipped;
\* an answer without the select gives no makes
parseTrustyMakes(answer) ==
    IF answer.isArray
    THEN SelectSeq([i \in 1..Len(answer.entries) |-> Trim(answer.entries[i])], NonEmptyName)
    ELSE <<>>

NoMakesCache == [cached |-> FALSE, makes |-> <<>>]

\* lines 264-286: the makes of the trusty yard, from the cache when it has them
fetchTrustyMakes(cache, answer, fails) ==
    IF cache.cached THEN [threw |-> FALSE, names |-> cache.makes, cache |-> cache]
    ELSE IF fails THEN [threw |-> TRUE, names |-> <<>>, cache |-> cache]
    ELSE [threw |-> FALSE, names |-> parseTrustyMakes(answer),
          cache |-> [cached |-> TRUE, makes |-> parseTrustyMakes(answer)]]

\* lines 302-315 with 162 or 187-191: the request throws when it fails
postJsonNames(answer, fails) ==
    IF fails THEN [threw |-> TRUE, names |-> <<>>]
    ELSE [threw |-> FALSE, names |-> namesOfAnswer(answer)]

\* a mutation that keeps repeated names
distinctNamesKeepAll(names) == names

\* lines 166 and 195: Array.from(new Set(lists.flat()))
distinctNames(names) == DistinctInOrder(names)

RECURSIVE InsertName(_, _)
InsertName(sorted, name) ==
    IF sorted = <<>> THEN <<name>>
    ELSE IF localeCompare(Head(sorted), name) > 0 THEN <<name>> \o sorted
    ELSE <<Head(sorted)>> \o InsertName(Tail(sorted), name)

RECURSIVE sortNames(_)
\* lines 167 and 196: sort((a, b) => a.localeCompare(b))
sortNames(names) ==
    IF names = <<>> THEN <<>>
    ELSE InsertName(sortNames(SubSeq(names, 1, Len(names) - 1)), names[Len(names)])

NamesBody(names) == [kind |-> "names", count |-> Len(names), names |-> names]

\* lines 153-175; runPool turns a task that threw into []
handleMakesAll(answers, cache, method, failed) ==
    LET trusty == fetchTrustyMakes(cache, answers[Len(YARDS)], Len(YARDS) \in failed)
        task(idx) == IF kindOf(YARDS[idx]) = "trusty" THEN trusty
                     ELSE postJsonNames(answers[idx], idx \in failed)
        lists == [idx \in YardIdx |-> IF task(idx).threw THEN <<>> ELSE task(idx).names]
        merged == sortNames(distinctNames(Flat(lists)))
    IN  IF method # "POST"
        THEN [status |-> 405, body |-> ErrorBody(T("POST only")), cache |-> cache]
        ELSE [status |-> 200, body |-> NamesBody(merged), cache |-> trusty.cache]

\* lines 177-204
handleModelsAll(answers, method, make, failed) ==
    LET makeName == Trim(make)
        task(idx) == postJsonNames(answers[idx], idx \in failed)
        lists == [idx \in YardIdx |-> IF task(idx).threw THEN <<>> ELSE task(idx).names]
        merged == sortNames(distinctNames(Flat(lists)))
    IN  IF method # "POST" THEN [status |-> 405, body |-> ErrorBody(T("POST only"))]
        ELSE IF makeName = <<>>
        THEN [status |-> 400, body |-> ErrorBody(T("makeName is required"))]
        ELSE [status |-> 200, body |-> NamesBody(merged)]

MakesAll(method, failed) ==
    /\ call.fn = "names"
    /\ LET response == handleMakesAll(call.answers, call.cache, method, failed)
       IN  /\ out' = [Quiet EXCEPT !.last = Respond("makes", response.status, <<>>,
                                                    response.status = 200, NoFacts, FALSE),
                                   !.request = [kind |-> "makes", failed |-> failed,
                                                cached |-> call.cache.cached],
                                   !.body = response.body]
           /\ call' = [call EXCEPT !.cache = response.cache]
    /\ UNCHANGED <<store, upstream, nextId, req, sweep, log>>

ModelsAll(method, make, failed) ==
    /\ call.fn = "names"
    /\ LET response == handleModelsAll(call.answers, method, make, failed)
       IN  out' = [Quiet EXCEPT !.last = Respond("models", response.status, <<>>,
                                                 response.status = 200, NoFacts, FALSE),
                                !.request = [kind |-> "models", failed |-> failed,
                                             cached |-> FALSE],
                                !.body = response.body]
    /\ UNCHANGED <<store, upstream, nextId, req, sweep, log, call>>

\* the names two yards may list: case variants, and an entry without a name
ListedNames == {<<"T">>, <<"t">>, <<"P">>, <<>>}

NameAnswers ==
    { [[idx \in YardIdx |-> Answer(TRUE, <<>>)] EXCEPT ![1] = a, ![2] = b, ![Len(YARDS)] = c] :
        a \in { Answer(TRUE, q) : q \in SeqsUpTo(ListedNames, MaxNameLen) }
                 \cup {Answer(FALSE, <<>>)},
        b \in {Answer(TRUE, <<>>), Answer(TRUE, << <<"P">>, <<"t">> >>), Answer(TRUE, << <<"T">> >>)},
        c \in {Answer(FALSE, <<>>), Answer(TRUE, << <<" ", "H">>, <<"T">> >>),
               Answer(TRUE, << <<"T">>, <<" ">> >>)} }

InitNames ==
    /\ store = <<>>
    /\ upstream = <<>>
    /\ nextId = 1
    /\ req = [h \in Handlers |-> Idle]
    /\ sweep = Idle
    /\ log = InitLogFor(0, 0)
    /\ out = Quiet
    /\ call \in { [fn |-> "names", answers |-> answers, cache |-> NoMakesCache] :
                    answers \in NameAnswers }

NameFailures == {{}, {1}, {2, Len(YARDS)}}

NextNames ==
    \/ \E method \in {"POST", "GET"}, failed \in NameFailures : MakesAll(method, failed)
    \/ \E method \in {"POST", "GET"}, make \in {<<"T">>, <<" ">>}, failed \in NameFailures :
           ModelsAll(method, make, failed)

SpecNames == InitNames /\ [][NextNames]_vars

NamesAnswered == out.body.kind = "names"

\* the names yard idx reported to the request: the names of the entries of its
\* answer (the option values of the trusty make list without their padding)
ReportedNames(idx) ==
    LET answer == call.answers[idx]
        entries == IF ~answer.isArray THEN {}
                   ELSE IF out.request.kind = "makes" /\ kindOf(YARDS[idx]) = "trusty"
                   THEN { Trim(answer.entries[i]) : i \in 1..Len(answer.entries) }
                   ELSE RangeOfSeq(answer.entries)
    IN  entries \ {<<>>}

\* the yards that answered: the request to them did not fail, or the trusty
\* makes were already cached and no request was made
YardsAnswering ==
    { idx \in YardIdx :
        \/ idx \notin out.request.failed
        \/ /\ out.request.kind = "makes" /\ out.request.cached
           /\ kindOf(YARDS[idx]) = "trusty" }

-----------------------------------------------------------------------------
(* A sweep over several saved searches with failing yards and failing pushes *)

MaxSweepRecords == 2

\* the sweep finds the records of one owner, saved while the yards listed
\* nothing, and the two vehicles that arrived since
InitSweepFail ==
    /\ store = Prefill(MaxSweepRecords, MaxSweepRecords)
    /\ upstream = Rows
    /\ nextId = 1
    /\ req = [h \in Handlers |-> Idle]
    /\ sweep = Idle
    /\ log = InitLogFor(0, 1)
    /\ out = Quiet
    /\ call = NoCall

NextSweepFail ==
    \/ SweepSteps({{}, {1}, {1, 2}})
    \/ DeliverySteps
    \/ InventorySteps(Rows)

SpecSweepFail == InitSweepFail /\ [][NextSweepFail]_vars

SweepThrew == out.last.op = "sweep"

DeliveryFailed == out.delivery.status = "push failed"

\* C23: a delivery that fails during a sweep becomes the record's
\* lastNotificationStatus, nothing is thrown, and the sweep processes every
\* remaining search and persists all records; a failing yard does not end the
\* sweep either.
C23_FailuresDoNotAbortSweep ==
    /\ ~SweepThrew
    /\ DeliveryFailed =>
           /\ sweep.pc = "loop"
           /\ sweep.refreshed[Len(sweep.refreshed)].id = out.delivery.id
           /\ sweep.refreshed[Len(sweep.refreshed)].lastNotificationStatus = "push failed"
    /\ log.swept =>
           /\ Len(store) = MaxSweepRecords
           /\ \A i \in 1..Len(store) :
                  /\ store[i].id \in DOMAIN log.check
                  /\ store[i].lastSnapshot = log.check[store[i].id].snap

\* a finished sweep whose first search met a failing yard and a failing push,
\* and whose last search was still aggregated and notified
C23_Witness ==
    /\ log.swept
    /\ ~log.check[store[1].id].complete
    /\ store[1].lastNotificationStatus = "push failed"
    /\ store[Len(store)].lastNotificationStatus = "push sent"
    /\ store[Len(store)].lastSnapshot = Rows

-----------------------------------------------------------------------------
(* scheduled: the cron guard in front of the sweep *)

MaxCronSweeps == 2

\* line 7
DAILY_ALERT_CRON == "0 9 * * *"

\* event.cron of an invocation that carries no cron expression
NoCron == ""

\* a mutation of the guard that lets every invocation through
cronIgnoredNever(cron) == FALSE

\* line 101: event.cron && event.cron !== DAILY_ALERT_CRON
cronIgnored(cron) == cron # NoCron /\ cron # DAILY_ALERT_CRON

\* lines 100-103
Scheduled(cron) ==
    IF cronIgnored(cron)
    THEN /\ out' = [Quiet EXCEPT !.request = [kind |-> "scheduled", cron |-> cron]]
         /\ UNCHANGED <<store, upstream, nextId, req, sweep, log, call>>
    ELSE rerunSavedSearches([kind |-> "scheduled", cron |-> cron])

Crons == {DAILY_ALERT_CRON, NoCron, "*/5 * * * *", "0 9 * * 1"}

InitCron ==
    /\ store \in {<<>>, Prefill(1, 1)}
    /\ upstream = Rows
    /\ nextId = 1
    /\ req = [h \in Handlers |-> Idle]
    /\ sweep = Idle
    /\ log = InitLogFor(0, MaxCronSweeps)
    /\ out = Quiet
    /\ call = NoCall

NextCron ==
    \/ \E cron \in Crons : Scheduled(cron)
    \/ \E failed \in {{}, {1}} : SweepAggregate(failed)
    \/ DeliverySteps
    \/ SweepPut
    \/ InventorySteps(Rows)

SpecCron == InitCron /\ [][NextCron]_vars

\* the step is a scheduled invocation
ScheduledStep == out'.request.kind = "scheduled"

\* the step read nothing, wrote nothing, aggregated and delivered nothing
NothingDone ==
    /\ UNCHANGED <<store, sweep, log>>
    /\ out'.delivery = NoDelivery

\* C24 as stated: an invocation whose cron is not '0 9 * * *' runs no sweep.
C24_MismatchIsIgnored ==
    [][(ScheduledStep /\ out'.request.cron # DAILY_ALERT_CRON) => NothingDone]_vars

\* C24: an invocation that carries a cron expression other than '0 9 * * *'
\* runs no sweep: no store read or write, no aggregation, no delivery; one that
\* carries the daily expression, or none, starts the sweep.
C24_OtherCronIsIgnored ==
    [][ScheduledStep =>
          IF out'.request.cron \notin {DAILY_ALERT_CRON, NoCron}
          THEN NothingDone
          ELSE /\ log'.sweepNo = log.sweepNo + 1
               /\ store # <<>> => sweep'.pc = "loop" /\ sweep'.searches = store]_vars

\* a stray trigger was ignored while searches are stored and none was swept
C24_Witness ==
    /\ out.request.kind = "scheduled"
    /\ out.request.cron = "*/5 * * * *"
    /\ store # <<>>
    /\ sweep.pc = "idle"
    /\ log.sweepNo = 0

-----------------------------------------------------------------------------
(* POST /alerts/notification: handleNotificationPoll *)

MaxPollSweeps == 2

\* a mutation that takes the last record of the endpoint
findByEndpointLast(searches, endpoint) ==
    LET matching == { i \in 1..Len(searches) : normalizeText(searches[i].pushEndpoint) = endpoint }
    IN  IF matching = {} THEN 0 ELSE CHOOSE i \in matching : \A j \in matching : j <= i

\* line 597: searches.find(...), as the index of the match, 0 for undefined
findByEndpoint(searches, endpoint) ==
    LET matching == { i \in 1..Len(searches) : normalizeText(searches[i].pushEndpoint) = endpoint }
    IN  IF matching = {} THEN 0 ELSE CHOOSE i \in matching : \A j \in matching : i <= j

\* lines 591-609, the store being configured
handleNotificationPoll(searches, rawEndpoint) ==
    LET endpoint == normalizeText(rawEndpoint)
        match == findByEndpoint(searches, endpoint)
    IN  IF endpoint = <<>>
        THEN [status |-> 400, body |-> ErrorBody(T("endpoint is required"))]
        ELSE IF match = 0
        THEN [status |-> 200, body |-> [kind |-> "notification", matched |-> FALSE,
                                        notification |-> NoPayload]]
        ELSE [status |-> 200,
              body |-> [kind |-> "notification", matched |-> TRUE,
                        notification |-> searches[match].lastNotificationPayload,
                        lastNotifiedAt |-> searches[match].lastNotifiedAt,
                        lastNotificationStatus |-> searches[match].lastNotificationStatus]]

NotificationPoll(rawEndpoint) ==
    /\ LET response == handleNotificationPoll(store, rawEndpoint)
       IN  out' = [Quiet EXCEPT !.last = Respond("poll", response.status, <<>>,
                                                 response.status = 200, NoFacts, FALSE),
                                !.request = [kind |-> "poll", endpoint |-> rawEndpoint],
                                !.body = response.body]
    /\ UNCHANGED <<store, upstream, nextId, req, sweep, log, call>>

\* a record of another browser, then two alerts of one browser
PollStore ==
    <<[StoredEarlier(3, ClientB, Null) EXCEPT !.pushEndpoint = <<"x">>]>> \o Prefill(2, 2)

PollEndpoints == {<<"e">>, <<" ", "e">>, <<"x">>, <<"y">>, <<" ">>}

InitPoll ==
    /\ store = PollStore
    /\ upstream = <<>>
    /\ nextId = 1
    /\ req = [h \in Handlers |-> Idle]
    /\ sweep = Idle
    /\ log = InitLogFor(0, MaxPollSweeps)
    /\ out = Quiet
    /\ call = NoCall

NextPoll ==
    \/ \E endpoint \in PollEndpoints : NotificationPoll(endpoint)
    \/ SweepSteps({{}})
    \/ DeliverySteps
    \/ InventorySteps(<<RowA>>)

SpecPoll == InitPoll /\ [][NextPoll]_vars

PollAnswered == out.request.kind = "poll" /\ out.last.status = 200

\* the records of the polled endpoint, by position in the store
PolledRecords == { i \in 1..Len(store) : Trim(store[i].pushEndpoint) = Trim(out.request.endpoint) }

\* C25: a poll returns the notification payload stored on the first record, in
\* store order, whose pushEndpoint is the polled endpoint, and a null
\* notification when no record has it or that record has never fired.
C25_PollReturnsFirstMatch ==
    PollAnswered =>
        IF PolledRecords = {}
        THEN out.body.notification = NoPayload
        ELSE LET first == CHOOSE i \in PolledRecords : \A j \in PolledRecords : i <= j
             IN  /\ out.body.notification = store[first].lastNotificationPayload
                 /\ store[first].lastNotifiedAt = Null => out.body.notification = NoPayload

\* a poll answered with the payload of the first alert of the browser while
\* its second alert carries another payload and an earlier record another endpoint
C25_Witness ==
    /\ PollAnswered
    /\ PolledRecords = {2, 3}
    /\ out.body.notification # NoPayload
    /\ out.body.notification = store[2].lastNotificationPayload
    /\ store[3].lastNotificationPayload # NoPayload
    /\ store[3].lastNotificationPayload # store[2].lastNotificationPayload

-----------------------------------------------------------------------------
(* The prefetch at creation while the yards are unreachable *)

MaxPrefetchIds == 2

\* every yard fails
AllYards == YardIdx

InitPrefetch ==
    /\ store = <<>>
    /\ upstream = <<RowA>>
    /\ nextId = 1
    /\ req = [h \in Handlers |-> Idle]
    /\ sweep = Idle
    /\ log = InitLogFor(MaxPrefetchIds, 0)
    /\ out = Quiet
    /\ call = NoCall

NextPrefetch ==
    \/ RequestSteps({"h1"}, {ClientA}, {PayloadAll, PayloadFrom2010, PayloadNoMake},
                    {1}, {{}, AllYards})
    \/ InventorySteps(<<RowA>>)

SpecPrefetch == InitPrefetch /\ [][NextPrefetch]_vars

\* the create just answered ran its aggregation against failing yards
CreatedAfterFailedPrefetch ==
    /\ out.request.kind = "create" /\ out.last.status = 201
    /\ ~log.check[out.body.alert.id].complete

\* C26: when the aggregation run at creation fails, the create still answers
\* 201 and stores the record, and the failure is recorded in the record's
\* lastNotificationStatus.
C26_PrefetchFailureIsRecorded ==
    CreatedAfterFailedPrefetch =>
        \E i \in 1..Len(store) :
            /\ store[i].id = out.body.alert.id
            /\ store[i].lastNotificationStatus # NoStatus

-----------------------------------------------------------------------------
(* The owner key as a function of the caller's address and client identifier *)

\* two IPv6 addresses and an IPv4-like one
OwnerAddresses == {<<":", ":", "1">>, <<":", ":", "1", ":", "1">>, <<"1">>}

OwnerAgents == {<<"x">>, <<"1", ":", "x">>, <<"a">>}

OwnerCallers == { [ip |-> ip, ua |-> ua] : ip \in OwnerAddresses, ua \in OwnerAgents }

InitOwner ==
    /\ store = <<>>
    /\ upstream = <<>>
    /\ nextId = 1
    /\ req = [h \in Handlers |-> Idle]
    /\ sweep = Idle
    /\ log = InitLogFor(0, 0)
    /\ out = Quiet
    /\ call \in { [fn |-> "hashOwner", a |-> a, b |-> b, done |-> FALSE] :
                    a \in OwnerCallers, b \in OwnerCallers }

\* lines 657-662 for two requests under the same salt
ApplyHashOwner ==
    /\ call.fn = "hashOwner" /\ ~call.done
    /\ call' = [fn |-> "hashOwner", a |-> call.a, b |-> call.b, done |-> TRUE,
                keyA |-> hashOwner(call.a), keyB |-> hashOwner(call.b)]
    /\ UNCHANGED <<store, upstream, nextId, req, sweep, log, out>>

NextOwner == ApplyHashOwner

SpecOwner == InitOwner /\ [][NextOwner]_vars

\* C27: the owner key is a function of (salt, address, client identifier), and
\* with a collision-free digest two callers whose (address, client identifier)
\* pairs differ never get the same key under the same salt.
C27_OwnerKeyIsInjective ==
    (call.fn = "hashOwner" /\ call.done) =>
        /\ (call.a = call.b) => (call.keyA = call.keyB)
        /\ (call.a # call.b) => (call.keyA # call.keyB)

-----------------------------------------------------------------------------
(* The handlers and the sweep when the saved-search store may be unbound *)

MaxEnvIds == 1

\* the KV bindings of the environment
Env(alerts, savedSearches) == [ALERTS |-> alerts, SAVED_SEARCHES |-> savedSearches]

\* a mutation that takes the store for bound
getSearchStoreAssumed(env) == TRUE

\* lines 467-469: whether env.ALERTS || env.SAVED_SEARCHES gives a namespace
getSearchStore(env) == env.ALERTS \/ env.SAVED_SEARCHES

NotConfigured(op) ==
    /\ out' = [Quiet EXCEPT !.last = Respond(op, 500, <<>>, FALSE, NoFacts, FALSE),
                           !.request = [kind |-> op],
                           !.body = ErrorBody(T("KV namespace not configured"))]
    /\ UNCHANGED <<store, upstream, nextId, req, sweep, log, call>>

\* lines 475-584: the store check of each method, then the method's handler
AlertsRequest(method, h, client, payload, id) ==
    /\ call.fn = "env"
    /\ CASE method = "GET" ->
              IF ~getSearchStore(call.env) THEN NotConfigured("list") ELSE ListAlerts(client)
         [] method = "POST" ->
              IF ~getSearchStore(call.env) THEN NotConfigured("create")
              ELSE CreateStart(h, client, payload)
         [] method = "DELETE" ->
              IF ~getSearchStore(call.env) THEN NotConfigured("delete")
              ELSE DeleteStart(h, client, id)
         [] OTHER ->
              /\ out' = [Quiet EXCEPT !.last = Respond("other", 405, <<>>, FALSE, NoFacts, FALSE),
                                      !.request = [kind |-> "other"],
                                      !.body = ErrorBody(T("Method not allowed"))]
              /\ UNCHANGED <<store, upstream, nextId, req, sweep, log, call>>

\* lines 587-610
PollRequest(rawEndpoint) ==
    /\ call.fn = "env"
    /\ IF ~getSearchStore(call.env) THEN NotConfigured("poll") ELSE NotificationPoll(rawEndpoint)

\* lines 100-102 and 363-365: the trigger, the cron guard, then the store check
ScheduledRun(cron) ==
    /\ call.fn = "env"
    /\ IF ~cronIgnored(cron) /\ ~getSearchStore(call.env)
       THEN /\ out' = [Quiet EXCEPT !.request = [kind |-> "scheduled", cron |-> cron]]
            /\ UNCHANGED <<store, upstream, nextId, req, sweep, log, call>>
       ELSE Scheduled(cron)

\* a vehicle arrived since the stored search was saved
InitEnv ==
    /\ store = Prefill(1, 1)
    /\ upstream = <<RowA>>
    /\ nextId = 1
    /\ req = [h \in Handlers |-> Idle]
    /\ sweep = Idle
    /\ log = InitLogFor(MaxEnvIds, 1)
    /\ out = Quiet
    /\ call \in { [fn |-> "env", env |-> env] :
                    env \in {Env(FALSE, FALSE), Env(TRUE, FALSE), Env(FALSE, TRUE)} }

NextEnv ==
    \/ \E method \in {"GET", "POST", "DELETE", "PUT"}, payload \in {PayloadFrom2010, PayloadNoMake},
          id \in {1, Null} :
           AlertsRequest(method, "h1", ClientA, payload, id)
    \/ \E endpoint \in {<<"e">>, <<>>} : PollRequest(endpoint)
    \/ \E cron \in {DAILY_ALERT_CRON, "*/5 * * * *"} : ScheduledRun(cron)
    \/ CreatePrefetch("h1", {})
    \/ CreatePut("h1")
    \/ DeletePut("h1")
    \/ SweepAggregate({})
    \/ DeliverySteps
    \/ SweepPut

SpecEnv == InitEnv /\ [][NextEnv]_vars

StoreUnbound == call.fn = "env" /\ ~call.env.ALERTS /\ ~call.env.SAVED_SEARCHES

\* C28: with no store bound, list, create, delete and poll answer 500 and
\* neither aggregate nor deliver, and the sweep returns without doing anything.
C28_UnboundStoreDoesNothing ==
    [][StoreUnbound =>
          /\ UNCHANGED <<store, nextId, req, sweep, log>>
          /\ out'.delivery = NoDelivery
          /\ out'.request.kind \in {"list", "create", "delete", "poll"} =>
                 /\ out'.last.status = 500
                 /\ out'.body = ErrorBody(T("KV namespace not configured"))]_vars

\* a valid create was refused with 500 while records lie in the unbound store
C28_Witness ==
    /\ StoreUnbound
    /\ out.request.kind = "create"
    /\ out.last.status = 500
    /\ store # <<>>
    /\ log.sweepNo = 0

-----------------------------------------------------------------------------
(* The sweep with its aggregations run task by task *)

MaxPoolSearches == 2

\* a mutation of the loop that starts every aggregation without awaiting
aggregationMayStartEarly(k, sw) == TRUE

\* lines 373-374 and 390: the loop calls runSavedSearch for search k when it has
\* pushed the records of all searches before it
aggregationMayStart(k, sw) == sw.pc = "loop" /\ k = sw.i

\* lines 397-415: the pool of runSavedSearch, no task when the make is blank
SavedSearchPool(search) ==
    LET len == IF Trim(search.VehicleMake) = <<>> THEN 0 ELSE Len(YARDS)
        n == workerCount(POOL_LIMIT, len)
        pool == [NewPool(len, POOL_LIMIT) EXCEPT !.workers = [w \in 1..n |-> 0]]
    IN  [SpawnWorkers(pool, 1, n) EXCEPT !.phase = "running"]

\* lines 416-421: flatten, then the year filter
filterByYear(search, all) ==
    LET range == RangeOf(search)
        Keep(r) == YearInRange(range, r.year)
    IN  SelectSeq(Flat(all), Keep)

\* lines 374 and 403-415: runSavedSearch(search) is called and its workers
\* start the first tasks
SweepPoolStart(k) ==
    /\ call.fn = "sweepPools"
    /\ sweep.pc \in {"loop", "aggregate", "deliver"}
    /\ k \in 1..Len(sweep.searches)
    /\ k \notin DOMAIN call.pools
    /\ aggregationMayStart(k, sweep)
    /\ call' = [call EXCEPT !.pools = (k :> SavedSearchPool(sweep.searches[k])) @@ @]
    /\ sweep' = [sweep EXCEPT !.pc = "aggregate"]
    /\ out' = Quiet
    /\ UNCHANGED <<store, upstream, nextId, req, log>>

\* lines 335-339 then 333: a yard task of search k settles
SweepPoolSettle(k, w, failed) ==
    /\ call.fn = "sweepPools"
    /\ k \in DOMAIN call.pools
    /\ call.pools[k].phase = "running"
    /\ w \in DOMAIN call.pools[k].workers
    /\ call.pools[k].workers[w] # 0
    /\ LET pool == call.pools[k]
           idx == pool.workers[w]
           search == sweep.searches[k]
           rows == IF idx \in failed THEN <<>>
                   ELSE fetchAndParseInventory(upstream, YARDS[idx], Trim(search.VehicleMake),
                                               Trim(search.VehicleModel))
           stored == [pool EXCEPT !.results[idx] = rows,
                                  !.outcome[idx] = IF idx \in failed THEN "fail" ELSE "rows"]
       IN  call' = [call EXCEPT !.pools[k] = TakeNext(stored, w)]
    /\ out' = Quiet
    /\ UNCHANGED <<store, upstream, nextId, req, sweep, log>>

\* lines 345-346, 416-421 and 375-383: the pool of the current search returns,
\* the rows are filtered and diffed, and the record is pushed unless a delivery
\* comes first
SweepPoolReturn(k) ==
    /\ call.fn = "sweepPools"
    /\ k \in DOMAIN call.pools
    /\ call.pools[k].phase = "running"
    /\ \A w \in DOMAIN call.pools[k].workers : call.pools[k].workers[w] = 0
    /\ sweep.pc = "aggregate" /\ k = sweep.i
    /\ LET search == sweep.searches[k]
           currentRows == filterByYear(search, call.pools[k].results)
           newVehicles == diffNewVehicles(currentRows, search.lastSnapshot)
           next == NextRecord(search, currentRows, newVehicles)
       IN  IF ShouldDeliver(newVehicles)
           THEN sweep' = [pc |-> "deliver", searches |-> sweep.searches,
                          refreshed |-> sweep.refreshed, i |-> sweep.i,
                          next |-> next, newVehicles |-> newVehicles]
           ELSE sweep' = [pc |-> "loop", searches |-> sweep.searches,
                          refreshed |-> Append(sweep.refreshed, next), i |-> sweep.i + 1]
    /\ call' = [call EXCEPT !.pools[k].phase = "returned",
                            !.pools[k].value = call.pools[k].results]
    /\ out' = Quiet
    /\ UNCHANGED <<store, upstream, nextId, req, log>>

InitSweepPool ==
    /\ store = Prefill(MaxPoolSearches, MaxPoolSearches)
    /\ upstream \in {<<RowA>>, Rows}
    /\ nextId = 1
    /\ req = [h \in Handlers |-> Idle]
    /\ sweep = Idle
    /\ log = InitLogFor(0, 1)
    /\ out = Quiet
    /\ call = [fn |-> "sweepPools", pools |-> EmptyFn]

NextSweepPool ==
    \/ SweepStart
    \/ \E k \in 1..MaxPoolSearches : SweepPoolStart(k)
    \/ \E k \in 1..MaxPoolSearches, w \in 1..POOL_LIMIT, failed \in {{}, {1}} :
           SweepPoolSettle(k, w, failed)
    \/ \E k \in 1..MaxPoolSearches : SweepPoolReturn(k)
    \/ DeliverySteps
    \/ SweepPut

SpecSweepPool == InitSweepPool /\ [][NextSweepPool]_vars

SweepPools == call.fn = "sweepPools"

\* the yard fetches in flight, over all aggregations of the sweep
FetchesInFlight ==
    { <<k, idx>> \in (DOMAIN call.pools) \X YardIdx :
        call.pools[k].phase = "running" /\ idx \in InFlight(call.pools[k]) }

\* C29: a sweep processes its searches one after another: the aggregation of a
\* search starts only when the aggregation and the delivery of every earlier
\* search have finished, so at most 2 yard fetches are in flight at any time.
C29_SweepIsSequential ==
    SweepPools =>
        /\ Cardinality(FetchesInFlight) <= 2
        /\ \A k \in DOMAIN call.pools :
               call.pools[k].phase = "running" =>
                   /\ sweep.pc = "aggregate" /\ sweep.i = k
                   /\ Len(sweep.refreshed) = k - 1
                   /\ \A j \in 1..(k - 1) :
                          j \in DOMAIN call.pools /\ call.pools[j].phase = "returned"
        /\ sweep.pc = "deliver" => FetchesInFlight = {}

\* the second search aggregates with two fetches in flight, after the first
\* search was aggregated and its notification delivered
C29_Witness ==
    /\ SweepPools /\ sweep.pc = "aggregate" /\ sweep.i = 2
    /\ Cardinality(FetchesInFlight) = 2
    /\ call.pools[2].outcome[3] # "none"
    /\ sweep.refreshed[1].lastNotificationStatus = "push sent"

-----------------------------------------------------------------------------
(* The single write of the sweep *)

IdsInOrder(searches) == [i \in 1..Len(searches) |-> searches[i].id]

\* the step is the write that ends the sweep: every search read was processed
\* and the refreshed records replace the collection, one per record read
FinalPut ==
    /\ sweep.pc = "loop"
    /\ Len(sweep.refreshed) = Len(sweep.searches)
    /\ sweep'.pc = "idle"
    /\ store' = sweep.refreshed
    /\ IdsInOrder(store') = IdsInOrder(sweep.searches)

\* C30: a sweep over a non-empty store writes the store exactly once, after
\* all searches have been processed, with one record for each record read, in
\* the order read; no write happens per record or in between.
C30_SweepWritesOnceAtEnd ==
    [][/\ store' # store => FinalPut
       /\ (sweep.pc # "idle" /\ sweep'.pc = "idle") => FinalPut]_vars

\* a sweep has ended with its write: the records read, in their order, with
\* the snapshots the sweep took
C30_Witness ==
    /\ log.swept /\ sweep.pc = "idle"
    /\ IdsInOrder(store) = IdsInOrder(Prefill(MaxSweepRecords, MaxSweepRecords))
    /\ store # Prefill(MaxSweepRecords, MaxSweepRecords)
    /\ \A i \in 1..Len(store) : store[i].lastSnapshot # <<>>
-----------------------------------------------------------------------------
(* runPool when a yard fetch never completes *)

MaxHangTasks == 4

\* a pool of len tasks of which the fetches of hung never settle
HangingPool(len, hung) == NewPool(len, POOL_LIMIT) @@ [hung |-> hung]

InitHang ==
    /\ store = <<>>
    /\ upstream = <<>>
    /\ nextId = 1
    /\ req = [h \in Handlers |-> Idle]
    /\ sweep = Idle
    /\ log = InitLogFor(0, 0)
    /\ out = Quiet
    /\ call \in { HangingPool(len, hung) : len \in 1..MaxHangTasks,
                                           hung \in SUBSET (1..MaxHangTasks) }
    /\ call.hung \subseteq 1..call.len

\* line 335: the awaited task of worker w settles; the promise of a hung fetch
\* never does
HangSettle(w, outcome) ==
    /\ call.fn = "runPool" /\ call.phase = "running"
    /\ w \in DOMAIN call.workers
    /\ call.workers[w] \notin call.hung
    /\ PoolSettle(w, outcome)

NextHang ==
    \/ PoolStart
    \/ \E w \in 1..POOL_LIMIT, outcome \in TaskOutcomes : HangSettle(w, outcome)
    \/ PoolReturn

\* the event loop runs every continuation that is ready, and every fetch that
\* is not hung settles
SpecHang ==
    /\ InitHang
    /\ [][NextHang]_vars
    /\ WF_vars(PoolStart)
    /\ \A w \in 1..POOL_LIMIT : WF_vars(\E outcome \in TaskOutcomes : HangSettle(w, outcome))
    /\ WF_vars(PoolReturn)

OthersSettled ==
    /\ PoolRuns
    /\ \A idx \in 1..call.len : idx \notin call.hung =>
           call.started[idx] = 1 /\ call.outcome[idx] # "none"

\* C31: whichever fetches never complete, every other yard task is started
\* and runs to completion.
C31_HungFetchBlocksOnlyItself == <>OthersSettled

FewerHungThanWorkers == PoolRuns /\ Cardinality(call.hung) < POOL_LIMIT

\* when fewer fetches hang than the pool has workers, the other tasks do
\* complete
FewerHungIsHarmless == FewerHungThanWorkers ~> OthersSettled

\* both workers wait on hung fetches while a later task was never started
BothWorkersHung ==
    /\ PoolRuns /\ call.phase = "running"
    /\ InFlight(call) \subseteq call.hung
    /\ Cardinality(InFlight(call)) = POOL_LIMIT
    /\ \E idx \in 1..call.len : idx \notin call.hung /\ call.started[idx] = 0
-----------------------------------------------------------------------------
(* Sweeps that follow a failed delivery *)

MaxRetrySweeps == 2
MaxRetryRecords == 1

\* the sweeps find the records of one owner, saved while the yards listed
\* nothing, and two vehicles that arrived since, of which BOISE's comes and
\* goes; no request writes the store meanwhile
InitRetry ==
    /\ store = Prefill(MaxRetryRecords, MaxRetryRecords)
    /\ upstream = Rows
    /\ nextId = 1
    /\ req = [h \in Handlers |-> Idle]
    /\ sweep = Idle
    /\ log = InitLogFor(0, MaxRetrySweeps)
    /\ out = Quiet
    /\ call = NoCall

NextRetry ==
    \/ SweepSteps({{}, {1}})
    \/ DeliverySteps
    \/ UpstreamChange(Rows, RowA)

SpecRetry == InitRetry /\ [][NextRetry]_vars

\* the record, as the sweep read it, of the search just aggregated
StepRead ==
    IF sweep.pc = "deliver" THEN sweep.searches[sweep.i] ELSE sweep.searches[sweep.i - 1]

\* the last delivery attempted for the search just aggregated failed
FailedBefore == Stepped /\ StepRead.lastNotificationStatus = "push failed"

\* the sweep has attempted a delivery for each search at most once
OncePerSearch ==
    sweep.pc # "idle" =>
        /\ \A j, k \in 1..Len(sweep.refreshed) :
               sweep.refreshed[j].id = sweep.refreshed[k].id => j = k
        /\ out.delivery # NoDelivery =>
               /\ sweep.pc = "loop"
               /\ Last(sweep.refreshed).id = out.delivery.id
               /\ sweep.searches[sweep.i - 1].id = out.delivery.id

-----------------------------------------------------------------------------
(* What a record keeps for life *)

MaxFrameIds == 1
MaxFrameSweeps == 1

\* one record saved earlier, then creates, deletes and sweeps in any
\* interleaving
InitFrame ==
    /\ store = Prefill(1, 1)
    /\ upstream = <<RowA>>
    /\ nextId = 1
    /\ req = [h \in Handlers |-> Idle]
    /\ sweep = Idle
    /\ log = InitLogFor(MaxFrameIds, MaxFrameSweeps)
    /\ out = Quiet
    /\ call = NoCall

NextFrame ==
    \/ RequestSteps({"h1"}, {ClientA}, {PayloadFrom2010, PayloadAll}, {1001}, {{}})
    \/ SweepSteps({{}})
    \/ DeliverySteps

SpecFrame == InitFrame /\ [][NextFrame]_vars

\* every copy of a record the program holds, the sweep's pending one included
RecordCopies ==
    AllRecords \cup (IF sweep.pc = "deliver" THEN {sweep.next} ELSE {})

\* the fields that are not snapshot or notification fields
Frozen(r) ==
    [id |-> r.id, ownerKey |-> r.ownerKey, createdAt |-> r.createdAt,
     VehicleMake |-> r.VehicleMake, VehicleModel |-> r.VehicleModel,
     VehicleYear |-> r.VehicleYear, VehicleMinYear |-> r.VehicleMinYear,
     VehicleMaxYear |-> r.VehicleMaxYear, pushEndpoint |-> r.pushEndpoint,
     pushAuth |-> r.pushAuth, pushP256dh |-> r.pushP256dh]

\* r is the record a create request is building after the step
CreatedHere(r) ==
    \E h \in Handlers : req'[h].pc \in {"prefetch", "put"} /\ req'[h].base = r

\* r is the record the sweep made, in the step, of a search it read
SweptHere(r) ==
    /\ sweep.pc # "idle" /\ sweep'.pc # "idle"
    /\ r.id = sweep.searches[sweep.i].id
    /\ \/ sweep'.pc = "deliver" /\ r = sweep'.next
       \/ sweep'.pc = "loop" /\ sweep'.refreshed # <<>> /\ r = Last(sweep'.refreshed)

\* C33: in every step, every copy of a record agrees with every earlier copy
\* of the same id on id, ownerKey, createdAt, make, model, years and push
\* credentials; a copy that differs from all earlier ones is either the record
\* a create is building for itself or the sweep's refreshed copy of the search
\* it is processing, so that creates and deletes write other records as read.
C33_OnlySweepFieldsChange ==
    [][\A r \in RecordCopies' :
           /\ \A s \in RecordCopies : s.id = r.id => Frozen(s) = Frozen(r)
           /\ r \notin RecordCopies => (CreatedHere(r) \/ SweptHere(r))]_vars

\* a create has stored its record beside one whose notification fields a
\* sweep has set
C33_Witness ==
    /\ out.last.op = "create" /\ out.last.status = 201
    /\ Len(store) = 2
    /\ store[1].id = 1001 /\ store[1].lastNotifiedAt # Null
    /\ store[1].lastSnapshot # <<>>
    /\ Frozen(store[1]) = Frozen(Prefill(1, 1)[1])
-----------------------------------------------------------------------------
(* runSavedSearch: the year filter *)

\* how many rows the yards list
MaxFilterRows == 2

\* years below, at, between and above the bounds of the searches
FilterYears == {2004, 2005, 2007, 2010, 2011}

\* saved searches for make T: no bound, a lower one, an upper one, both, a
\* single year
FilterSearches ==
    { NewRecord(1, hashOwner(ClientA), 0,
                validateAlertPayload(Payload(<<"T">>, <<>>, mn, mx, yr, <<"e">>, <<"k">>, <<"d">>))) :
        <<mn, mx, yr>> \in {<<Null, Null, Null>>, <<2005, Null, Null>>, <<Null, 2010, Null>>,
                            <<2005, 2010, Null>>, <<Null, Null, 2010>>} }

\* the listing: row i is in yard 1 or 2 by turns, of the given year
FilterListing(years) ==
    [i \in 1..Len(years) |-> Row(1 + (i % 2), years[i], <<"T">>, <<"P">>, NumStr(i))]

InitFilter ==
    /\ store = <<>>
    /\ upstream \in { FilterListing(years) : years \in SeqsUpTo(FilterYears, MaxFilterRows) }
    /\ nextId = 1
    /\ req = [h \in Handlers |-> Idle]
    /\ sweep = Idle
    /\ log = InitLogFor(0, 0)
    /\ out = Quiet
    /\ call \in { [fn |-> "runSavedSearch", search |-> search, done |-> FALSE,
                   all |-> <<>>, value |-> <<>>] : search \in FilterSearches }

\* lines 415-421: all is what runPool returned, value what the filter keeps
ApplyRunSavedSearch ==
    /\ call.fn = "runSavedSearch" /\ ~call.done
    /\ call' = [call EXCEPT
                   !.done = TRUE,
                   !.all = PoolResults(upstream, {}, Trim(call.search.VehicleMake),
                                       Trim(call.search.VehicleModel)),
                   !.value = runSavedSearch(call.search, upstream, {})]
    /\ UNCHANGED <<store, upstream, nextId, req, sweep, log, out>>

NextFilter == ApplyRunSavedSearch

SpecFilter == InitFilter /\ [][NextFilter]_vars

FilterDone == call.fn = "runSavedSearch" /\ call.done

\* C34: the rows runSavedSearch returns are exactly the aggregated rows, in
\* order, whose year y has (minYear null or y >= minYear) and (maxYear null
\* or y <= maxYear), minYear and maxYear being the search's year range.
C34_YearFilterIsInclusive ==
    FilterDone =>
        LET range == RangeOf(call.search)
            Wanted(r) == /\ (range.minYear = Null \/ r.year >= range.minYear)
                         /\ (range.maxYear = Null \/ r.year <= range.maxYear)
        IN  call.value = SelectSeq(Flat(call.all), Wanted)

\* a search from 2005 to 2010 kept a row of each bound
C34_Witness ==
    /\ FilterDone
    /\ RangeOf(call.search).minYear = 2005 /\ RangeOf(call.search).maxYear = 2010
    /\ Len(call.value) = 2
    /\ {call.value[1].year, call.value[2].year} = {2005, 2010}
-----------------------------------------------------------------------------
(* Rejected requests *)

MaxRejectIds == 1

\* the search of the first record of Prefill, saved again
PayloadSavedBefore ==
    Payload(<<"T">>, <<>>, MIN_YEAR + 1, Null, Null, <<"e">>, <<"k">>, <<"d">>)

\* a store with room, one where ClientA has used the owner quota, a full one
RejectStores ==
    {Prefill(1, 1),
     Prefill(MAX_ALERTS_PER_OWNER, MAX_ALERTS_PER_OWNER),
     Prefill(MAX_ALERTS_TOTAL, 1)}

\* the id of ClientA's first record, which ClientB may not delete, and no id
RejectIds == {1001, Null}

InitReject ==
    /\ store \in RejectStores
    /\ upstream = <<RowA>>
    /\ nextId = 1
    /\ req = [h \in Handlers |-> Idle]
    /\ sweep = Idle
    /\ log = InitLogFor(MaxRejectIds, 0)
    /\ out = Quiet
    /\ call = NoCall

RejectPayloads == {PayloadFrom2010, PayloadSavedBefore, PayloadNoMake}

\* creates served by one handler and deletes by the other, interleaved
NextReject ==
    \/ \E c \in Clients, p \in RejectPayloads : CreateStart("h1", c, p)
    \/ CreatePrefetch("h1", {})
    \/ CreatePut("h1")
    \/ \E c \in Clients, id \in RejectIds : DeleteStart("h2", c, id)
    \/ DeletePut("h2")

SpecReject == InitReject /\ [][NextReject]_vars

\* the step answers a create with 400, 409 or 429, or a delete with 400 or 404
Rejects ==
    \/ out'.last.op = "create" /\ out'.last.status \in {400, 409, 429}
    \/ out'.last.op = "delete" /\ out'.last.status \in {400, 404}

\* C35: a step that answers a create with 400, 409 or 429, or a delete with
\* 400 or 404, performs no write, and the stored collection is the same
\* before and after it.
C35_RejectionsDoNotWrite ==
    [][Rejects => (store' = store /\ ~out'.last.wrote)]_vars

\* a duplicate is refused while another request is between its read and its
\* write
C35_Witness ==
    /\ out.last.op = "create" /\ out.last.status = 409
    /\ \E h \in Handlers : req[h].pc \in {"put", "delput"}
    /\ store = Prefill(1, 1)
-----------------------------------------------------------------------------
(* Two creates that read before either writes *)

MaxLostIds == 2

\* one record saved earlier; two handlers serve creates of two browsers
InitLost ==
    /\ store = Prefill(1, 1)
    /\ upstream = <<RowA>>
    /\ nextId = 1
    /\ req = [h \in Handlers |-> Idle]
    /\ sweep = Idle
    /\ log = InitLogFor(MaxLostIds, 0)
    /\ out = Quiet
    /\ call = NoCall

NextLost ==
    \/ \E h \in Handlers, c \in Clients, p \in {PayloadFrom2010, PayloadAll} : CreateStart(h, c, p)
    \/ \E h \in Handlers : CreatePrefetch(h, {})
    \/ \E h \in Handlers : CreatePut(h)

SpecLost == InitLost /\ [][NextLost]_vars

\* the step is the write of the create served by h
CreateWrites(h) == req[h].pc = "put" /\ req'[h].pc = "idle"

\* the records stored since the create served by h read the collection
StoredSinceRead(h) == IdsOf(store) \ IdsOf(req[h].searches)

\* C36: the write of a create answers 201 with the created record and leaves
\* in the store the collection the create read plus its own record; a record
\* another create stored since that read is gone and nobody is told.
C36_LaterCreateOverwritesEarlier ==
    [][\A h \in Handlers : CreateWrites(h) =>
           /\ out'.last.op = "create" /\ out'.last.status = 201
           /\ out'.body = CreatedBody(req[h].base)
           /\ store' = req[h].searches
           /\ req[h].base.id \in IdsOf(store')
           /\ \A id \in StoredSinceRead(h) : id \notin IdsOf(store')]_vars

\* both creates were answered 201 and the store holds the record of the
\* second writer without that of the first
C36_Witness ==
    /\ \A h \in Handlers : req[h].pc = "idle"
    /\ nextId = 3
    /\ out.last.op = "create" /\ out.last.status = 201
    /\ Len(store) = 2
    /\ Cardinality(IdsOf(store) \cap {1, 2}) = 1
-----------------------------------------------------------------------------
(* getVapidKeys: the delivery key pair *)

\* calls started, key pairs generated
MaxVapidCalls == 3
MaxKeyPairs == 2

\* two running instances of the worker; the first serves two overlapping calls
Instances == {"i1", "i2"}
VapidCallers == {<<"i1", 1>>, <<"i1", 2>>, <<"i2", 1>>}
InstanceOf(c) == c[1]

\* the public key of the pair the configuration supplies, when it does; a
\* generated pair is named by the number of its generation
ConfiguredKey == 0

\* line 30: let cachedVapidKeys = null
NoCachedKeys == [publicKey |-> Null, persistedToKV |-> FALSE, persistenceError |-> "null"]

IdleCaller == [pc |-> "idle"]

\* configured: ALERT_VAPID_PUBLIC_KEY and ALERT_VAPID_PRIVATE_KEY are set;
\* hasKv: getVapidKeyStore(env) is bound; kv: the pair under VAPID_KEYS_KV_KEY
NewVapid(configured, hasKv) ==
    [fn |-> "getVapidKeys", configured |-> configured, hasKv |-> hasKv,
     kv |-> Null,
     cached |-> [i \in Instances |-> NoCachedKeys],
     run |-> [c \in VapidCallers |-> IdleCaller],
     started |-> 0, made |-> 0,
     madeBy |-> [i \in Instances |-> 0],
     returned |-> [i \in Instances |-> {}],
     caps |-> [calls |-> MaxVapidCalls, pairs |-> MaxKeyPairs]]

InitVapid ==
    /\ store = <<>>
    /\ upstream = <<>>
    /\ nextId = 1
    /\ req = [h \in Handlers |-> Idle]
    /\ sweep = Idle
    /\ log = InitLogFor(0, 0)
    /\ out = Quiet
    /\ call \in { NewVapid(configured, hasKv) :
                    configured \in BOOLEAN, hasKv \in BOOLEAN }

\* `return cachedVapidKeys`: the caller gets the instance's current pair
ReturnCached(v, c) ==
    [v EXCEPT !.run[c] = IdleCaller,
              !.returned[InstanceOf(c)] = @ \cup {v.cached[InstanceOf(c)].publicKey}]

\* lines 744-773 and 789: up to the first await
GetVapidKeysCall(c) ==
    /\ call.fn = "getVapidKeys"
    /\ call.run[c].pc = "idle"
    /\ call.started < call.caps.calls
    /\ LET i == InstanceOf(c)
           v == [call EXCEPT !.started = @ + 1]
       IN  call' =
             IF v.configured
             THEN ReturnCached([v EXCEPT !.cached[i] =
                                    [publicKey |-> ConfiguredKey, persistedToKV |-> FALSE,
                                     persistenceError |-> "null"]], c)
             ELSE IF v.cached[i].publicKey # Null
             THEN IF v.hasKv /\ ~v.cached[i].persistedToKV
                  THEN [v EXCEPT !.run[c] = [pc |-> "reput", key |-> v.cached[i].publicKey]]
                  ELSE ReturnCached(v, c)
             ELSE IF v.hasKv
             THEN [v EXCEPT !.run[c] = [pc |-> "get"]]
             ELSE [v EXCEPT !.run[c] =
                       [pc |-> "generate",
                        persistenceError |-> "KV namespace not configured for VAPID keys"]]
    /\ UNCHANGED <<store, upstream, nextId, req, sweep, log, out>>

\* lines 756-768: the write of the cached pair settles
GetVapidKeysReput(c, ok) ==
    /\ call.fn = "getVapidKeys"
    /\ call.run[c].pc = "reput"
    /\ LET i == InstanceOf(c)
           v == IF ok
                THEN [call EXCEPT !.kv = call.run[c].key,
                                  !.cached[i].persistedToKV = TRUE,
                                  !.cached[i].persistenceError = "null"]
                ELSE [call EXCEPT !.cached[i].persistenceError = "KV write failed"]
       IN  call' = ReturnCached(v, c)
    /\ UNCHANGED <<store, upstream, nextId, req, sweep, log, out>>

\* lines 775-789: the read settles
GetVapidKeysGet(c, ok) ==
    /\ call.fn = "getVapidKeys"
    /\ call.run[c].pc = "get"
    /\ LET i == InstanceOf(c)
       IN  call' =
             IF ok /\ call.kv # Null
             THEN ReturnCached([call EXCEPT !.cached[i] =
                                    [publicKey |-> call.kv, persistedToKV |-> TRUE,
                                     persistenceError |-> "null"]], c)
             ELSE [call EXCEPT !.run[c] =
                       [pc |-> "generate",
                        persistenceError |-> IF ok THEN "null" ELSE "KV read failed"]]
    /\ UNCHANGED <<store, upstream, nextId, req, sweep, log, out>>

\* lines 792-795: generateVapidKeyPair settles with a pair never seen before
GetVapidKeysGenerate(c) ==
    /\ call.fn = "getVapidKeys"
    /\ call.run[c].pc = "generate"
    /\ call.made < call.caps.pairs
    /\ LET i == InstanceOf(c)
           generated == call.made + 1
           v == [call EXCEPT !.made = generated,
                             !.madeBy[i] = @ + 1,
                             !.cached[i] = [publicKey |-> generated, persistedToKV |-> FALSE,
                                            persistenceError |-> call.run[c].persistenceError]]
       IN  call' = IF v.hasKv
                   THEN [v EXCEPT !.run[c] = [pc |-> "put", generated |-> generated]]
                   ELSE ReturnCached(v, c)
    /\ UNCHANGED <<store, upstream, nextId, req, sweep, log, out>>

\* lines 796-806: the write of the generated pair settles
GetVapidKeysPut(c, ok) ==
    /\ call.fn = "getVapidKeys"
    /\ call.run[c].pc = "put"
    /\ LET i == InstanceOf(c)
           v == IF ok
                THEN [call EXCEPT !.kv = call.run[c].generated,
                                  !.cached[i].persistedToKV = TRUE,
                                  !.cached[i].persistenceError = "null"]
                ELSE [call EXCEPT !.cached[i].persistenceError = "KV write failed"]
       IN  call' = ReturnCached(v, c)
    /\ UNCHANGED <<store, upstream, nextId, req, sweep, log, out>>

NextVapid ==
    \/ \E c \in VapidCallers : GetVapidKeysCall(c)
    \/ \E c \in VapidCallers, ok \in BOOLEAN : GetVapidKeysReput(c, ok)
    \/ \E c \in VapidCallers, ok \in BOOLEAN : GetVapidKeysGet(c, ok)
    \/ \E c \in VapidCallers : GetVapidKeysGenerate(c)
    \/ \E c \in VapidCallers, ok \in BOOLEAN : GetVapidKeysPut(c, ok)

SpecVapid == InitVapid /\ [][NextVapid]_vars

VapidRuns == call.fn = "getVapidKeys"

\* C37: with no configured pair, the calls of one instance all return the
\* same public key and the instance generates at most one key pair.
C37_OnePairPerInstance ==
    (VapidRuns /\ ~call.configured) =>
        \A i \in Instances :
            /\ call.madeBy[i] <= 1
            /\ Cardinality(call.returned[i]) <= 1

\* C38: once a pair is in the durable store, no step of getVapidKeys replaces
\* it by another pair.
C38_PersistedPairIsKept ==
    [][(VapidRuns /\ call.kv # Null) => call'.kv = call.kv]_vars
-----------------------------------------------------------------------------
(* The poll after a delivery *)

\* the stored records a sweep has attempted a delivery for, whose endpoint is
\* the one just polled; no request writes the store in SpecPoll, so the store
\* is what the last sweep persisted
DeliveredTo(rawEndpoint) ==
    { i \in 1..Len(store) :
        /\ normalizeText(store[i].pushEndpoint) = normalizeText(rawEndpoint)
        /\ store[i].lastNotifiedAt # Null }

\* C39: a poll for endpoint E answers with the notification payload of every
\* stored search with endpoint E that a sweep attempted a delivery for.
C39_PollReturnsTheSearchPayload ==
    (PollAnswered /\ out.last.status = 200) =>
        \A i \in DeliveredTo(out.request.endpoint) :
            /\ out.body.notification # NoPayload
            /\ out.body.notification = store[i].lastNotificationPayload
-----------------------------------------------------------------------------
(* A vehicle that leaves and returns *)

MaxReturnSweeps == 2

\* what the creation-time prefetch found: both vehicles listed
SnapshotAtStart == Rows

\* one search saved while both vehicles were listed and every yard answered;
\* no request writes the store between the sweeps
InitReturn ==
    /\ store = <<[Prefill(1, 1)[1] EXCEPT !.lastSnapshot = SnapshotAtStart]>>
    /\ upstream = Rows
    /\ nextId = 1
    /\ req = [h \in Handlers |-> Idle]
    /\ sweep = Idle
    /\ log = [InitLogFor(0, MaxReturnSweeps) EXCEPT
                 !.check = (Prefill(1, 1)[1].id :>
                                [up |-> SetOf(Rows), complete |-> TRUE, snap |-> SnapshotAtStart])]
    /\ out = Quiet
    /\ call = NoCall

NextReturn ==
    \/ SweepSteps({{}, {1}})
    \/ DeliverySteps
    \/ InventorySteps(Rows)

SpecReturn == InitReturn /\ [][NextReturn]_vars

\* the step aggregates and diffs the search at sweep.i
Aggregates ==
    /\ sweep.pc = "loop" /\ sweep.i <= Len(sweep.searches)
    /\ sweep' # sweep

\* C40: a vehicle of the snapshot taken at creation that the previous check's
\* aggregation lacked and this sweep's aggregation has is among the vehicles
\* this sweep reports as new and attempts a delivery for.
C40_ReturningVehicleIsNew ==
    [][Aggregates =>
           LET id == sweep.searches[sweep.i].id
           IN  \A v \in SetOf(SnapshotAtStart) :
                   (/\ v \notin SetOf(log.check[id].snap)
                    /\ v \in SetOf(log'.check[id].snap))
                   => /\ sweep'.pc = "deliver"
                      /\ v \in SetOf(sweep'.newVehicles)]_vars

\* the second sweep is about to deliver for BOISE's vehicle, which the first
\* sweep did not find and the stored snapshot therefore lacks
C40_Witness ==
    /\ sweep.pc = "deliver"
    /\ log.sweepNo = 2
    /\ RowA \in SetOf(sweep.newVehicles)
    /\ Len(store) = 1
    /\ RowA \notin SetOf(store[1].lastSnapshot)
    /\ RowA \in SetOf(SnapshotAtStart)

====
